---- MODULE Spec2Model ----
(***************************************************************************)
(* A model of LakanaRAG's extraction and merge pipeline                    *)
(* (src/lightrag/operate.py).                                              *)
(*                                                                         *)
(*   SpecMerge    merge_nodes_and_edges: workers that merge extraction     *)
(*                batches into the graph and the two vector stores under   *)
(*                the graph-DB lock, one storage call group per step, a    *)
(*                storage error possible before every step.                *)
(*   SpecExtract  extract_entities: one task per chunk behind a semaphore, *)
(*                asyncio.wait(FIRST_EXCEPTION), cancellation.             *)
(*                                                                         *)
(* Strings of the program are modelled as follows.  A description is the   *)
(* sequence of its fragments (the parts between GRAPH_FIELD_SEP); the      *)
(* empty string is the one-fragment sequence <<"">> ("".count(SEP)+1 = 1). *)
(* source_id, file_path and keywords are written by the code as a join of  *)
(* a set and read back by a split: they are kept as sets.  Weights are     *)
(* naturals (the code adds floats).  created_at, additional_properties,    *)
(* entity_id and the vector payloads other than the id are not modelled.   *)
(* Description and geography enrichment are off (their defaults,           *)
(* src/lightrag/constants.py:31-32); the entity vector store and the       *)
(* relationship vector store are both configured (not None).               *)
(***************************************************************************)
EXTENDS Integers, Sequences, FiniteSets, TLC

\* ------------------------------------------------------------------ bounds

\* Merge passes begun in one behaviour.
MaxPasses == 2
\* Chunks in one extraction batch.
MaxBatch == 2
\* Paths the store answers over the fan-out of one pass (at most top_k a call).
MaxPaths == 1
\* Chunk tasks of one extract_entities call.
NTasks == 3
\* global_config["llm_model_max_async"], the size of the semaphore
llm_model_max_async == 2

\* ------------------------------------------------------- program constants

DEFAULT_FORCE_LLM_SUMMARY_ON_MERGE == 6

\* append_conversation_history(..., max_messages: int = 20)
DEFAULT_MAX_MESSAGES == 20

CHUNK_FETCH_MAX_CONCURRENCY == 20

fanout_max_depth == 3
fanout_top_k == 3

\* ------------------------------------------------------------- the universe

\* Standardized entity names, in Python's string order.
NameOrder == <<"a", "b", "c">>
Names == {NameOrder[i] : i \in 1..Len(NameOrder)}

\* Python's None.
None == [none |-> TRUE]

\* Fragment texts in Python's string order ("" first).
AtomOrder == <<"", "0", "d1", "d2", "e", "inconnue", "s">>

Range(s) == {s[i] : i \in 1..Len(s)}

Index(order, x) == CHOOSE i \in 1..Len(order) : order[i] = x

\* x < y on names (str.__lt__ on the model's names).
NameLt(x, y) == Index(NameOrder, x) < Index(NameOrder, y)

AtomLt(x, y) == Index(AtomOrder, x) < Index(AtomOrder, y)

\* s < t on joined strings: with fragments of equal width that hold no
\* separator, comparing the joined strings is comparing the fragment
\* sequences lexicographically (a proper prefix is smaller).
RECURSIVE StrLt(_, _)
StrLt(s, t) ==
    IF s = <<>> THEN t # <<>>
    ELSE IF t = <<>> THEN FALSE
    ELSE IF s[1] = t[1] THEN StrLt(Tail(s), Tail(t))
    ELSE AtomLt(s[1], t[1])

\* GRAPH_FIELD_SEP.join(sorted(set(strs))): strs is the set (already
\* deduplicated) of strings, each a fragment sequence.
RECURSIVE JoinSorted(_)
JoinSorted(strs) ==
    IF strs = {} THEN <<"">>
    ELSE LET m == CHOOSE x \in strs : \A y \in strs \ {x} : StrLt(x, y)
         IN  IF strs = {m} THEN m ELSE m \o JoinSorted(strs \ {m})

\* description.count(GRAPH_FIELD_SEP) + 1
NumFragment(description) == Len(description)

\* not description.strip()
IsBlank(description) == description = <<"">>

RECURSIVE SumSeq(_)
SumSeq(s) == IF s = <<>> THEN 0 ELSE s[1] + SumSeq(Tail(s))

\* sorted() of a sequence of names (duplicates kept).
RECURSIVE SortNames(_)
SortNames(s) ==
    IF s = <<>> THEN <<>>
    ELSE LET i == CHOOSE j \in 1..Len(s) :
                     \A k \in 1..Len(s) : ~NameLt(s[k], s[j])
         IN  <<s[i]>> \o SortNames(SubSeq(s, 1, i - 1) \o SubSeq(s, i + 1, Len(s)))

\* sep.join(names)
RECURSIVE JoinNames(_, _)
JoinNames(sep, s) ==
    IF s = <<>> THEN ""
    ELSE IF Len(s) = 1 THEN s[1]
    ELSE s[1] \o sep \o JoinNames(sep, Tail(s))

\* compute_mdhash_id(content, prefix): the digest is kept as the content
\* itself, md5 taken as injective on the model's few contents.
compute_mdhash_id(content, prefix) == prefix \o content

\* standardize_entity_name: case canonicalisation of a raw name.
standardize_entity_name(raw) == IF raw = "A" THEN "a" ELSE raw

\* --------------------------------------------------- dictionaries (ordered)

\* A Python dict (insertion ordered, as defaultdict(list)): a sequence of
\* [k, v] entries with distinct keys.
DictHas(d, key) == \E i \in 1..Len(d) : d[i].k = key

DictGet(d, key) == (CHOOSE i \in 1..Len(d) : d[i].k = key)

\* d[key].extend(items)
DictExtend(d, key, items) ==
    IF DictHas(d, key)
    THEN [i \in 1..Len(d) |->
             IF d[i].k = key THEN [k |-> key, v |-> d[i].v \o items] ELSE d[i]]
    ELSE Append(d, [k |-> key, v |-> items])

\* ------------------------------------------------------------ LLM answers

Chunks == {"c1", "c2", "c3"}

\* chunk_dp.get("file_path", "unknown_source")
ChunkFilePath(chunk_key) == "doc"

\* The records of the LLM's answer for a chunk, after the split on the
\* record and tuple delimiters (record_attributes, by field).
LLMOutput(chunk_key) ==
    CASE chunk_key = "c1" ->
           << [tag |-> "entity", name |-> "a", type |-> "person", desc |-> "d1"],
              [tag |-> "entity", name |-> "b", type |-> "person", desc |-> "d1"],
              [tag |-> "relationship", src |-> "a", tgt |-> "b", desc |-> "d1",
               kw |-> {"k1"}, w |-> 1] >>
      [] chunk_key = "c2" ->
           << [tag |-> "entity", name |-> "a", type |-> "person", desc |-> "d2"],
              [tag |-> "relationship", src |-> "b", tgt |-> "A", desc |-> "",
               kw |-> {"k2"}, w |-> 2],
              [tag |-> "latent_relation", src |-> "c", tgt |-> "c", desc |-> "d1",
               kw |-> {}, w |-> 1],
              [tag |-> "relationship", src |-> "b", tgt |-> "c", desc |-> "",
               kw |-> {}, w |-> 1] >>
      [] chunk_key = "c4" ->
           << [tag |-> "entity", name |-> "a", type |-> "person", desc |-> "d1"],
              [tag |-> "entity", name |-> "a", type |-> "person", desc |-> "d2"],
              [tag |-> "relationship", src |-> "a", tgt |-> "b", desc |-> "d2",
               kw |-> {"k1"}, w |-> 1] >>
      [] OTHER ->
           << [tag |-> "Association", ents |-> <<"a", "b">>, desc |-> "d1",
               gen |-> "d2", kw |-> {"k1"}, w |-> 1],
              [tag |-> "multi_hop", ents |-> <<"a", "b">>, desc |-> "d1",
               kw |-> {}, w |-> 2] >>

\* ------------------------------------------------------- record handlers

_handle_single_entity_extraction(rec, chunk_key, file_path) ==
    IF rec.tag # "entity" THEN None
    ELSE IF rec.name = "" THEN None
    ELSE IF rec.type = "" THEN None
    ELSE IF rec.desc = "" THEN None
    ELSE [entity_name |-> standardize_entity_name(rec.name),
          entity_type |-> rec.type,
          description |-> rec.desc,
          entity_community |-> "inconnue",
          source_id |-> chunk_key,
          file_path |-> file_path]

_handle_single_relationship_extraction(rec, chunk_key, file_path) ==
    IF rec.tag # "relationship" THEN None
    ELSE LET source == standardize_entity_name(rec.src)
             target == standardize_entity_name(rec.tgt)
         IN  IF source = target THEN None
             ELSE [src_id |-> source, tgt_id |-> target, weight |-> rec.w,
                   description |-> rec.desc, keywords |-> rec.kw,
                   source_id |-> chunk_key, file_path |-> file_path]

_handle_single_latent_relation_extraction(rec, chunk_key, file_path) ==
    IF rec.tag # "latent_relation" THEN None
    ELSE [src_id |-> standardize_entity_name(rec.src),
          tgt_id |-> standardize_entity_name(rec.tgt),
          weight |-> rec.w, description |-> rec.desc, keywords |-> rec.kw,
          source_id |-> chunk_key, file_path |-> file_path]

_handle_single_multi_hop_extraction(rec, chunk_key, file_path) ==
    IF rec.tag # "multi_hop" THEN None
    ELSE [path_entities |-> [i \in 1..Len(rec.ents) |->
                                standardize_entity_name(rec.ents[i])],
          path_description |-> rec.desc, path_keywords |-> rec.kw,
          path_strength |-> rec.w,
          source_id |-> chunk_key, file_path |-> file_path]

_handle_single_association_extraction(rec, chunk_key, file_path) ==
    IF rec.tag # "Association" THEN None
    ELSE [entities |-> [i \in 1..Len(rec.ents) |->
                           standardize_entity_name(rec.ents[i])],
          description |-> rec.desc, generalization |-> rec.gen,
          keywords |-> rec.kw, strength |-> rec.w,
          source_id |-> chunk_key, file_path |-> file_path]

EmptyResult ==
    [maybe_nodes |-> <<>>, maybe_edges |-> <<>>,
     maybe_assocs |-> <<>>, maybe_multi_hops |-> <<>>]

\* One turn of the loop over records: the first handler that accepts the
\* record decides where it goes.
ProcessRecord(acc, rec, chunk_key, file_path, cfg) ==
    LET if_entities == _handle_single_entity_extraction(rec, chunk_key, file_path)
        if_relation == _handle_single_relationship_extraction(rec, chunk_key, file_path)
        if_latent == _handle_single_latent_relation_extraction(rec, chunk_key, file_path)
        if_multi == _handle_single_multi_hop_extraction(rec, chunk_key, file_path)
        if_assoc == _handle_single_association_extraction(rec, chunk_key, file_path)
    IN  IF if_entities # None
        THEN [acc EXCEPT !.maybe_nodes =
                 DictExtend(@, if_entities.entity_name, <<if_entities>>)]
        ELSE IF if_relation # None
        THEN [acc EXCEPT !.maybe_edges =
                 DictExtend(@, <<if_relation.src_id, if_relation.tgt_id>>,
                            <<if_relation>>)]
        ELSE IF cfg.enable_latent_relation /\ if_latent # None
        THEN [acc EXCEPT !.maybe_edges =
                 DictExtend(@, <<if_latent.src_id, if_latent.tgt_id>>, <<if_latent>>)]
        ELSE IF cfg.enable_multi_hop /\ if_multi # None
        THEN [acc EXCEPT !.maybe_multi_hops = Append(@, if_multi)]
        ELSE IF cfg.enable_association /\ if_assoc # None
        THEN [acc EXCEPT !.maybe_assocs = Append(@, if_assoc)]
        ELSE acc

RECURSIVE ProcessRecords(_, _, _, _, _)
ProcessRecords(acc, records, chunk_key, file_path, cfg) ==
    IF records = <<>> THEN acc
    ELSE ProcessRecords(ProcessRecord(acc, records[1], chunk_key, file_path, cfg),
                        Tail(records), chunk_key, file_path, cfg)

_process_extraction_result(result, chunk_key, file_path, cfg) ==
    ProcessRecords(EmptyResult, result, chunk_key, file_path, cfg)

\* What extract_entities returns for one chunk (no gleaning round).
ChunkResult(chunk_key, cfg) ==
    _process_extraction_result(LLMOutput(chunk_key), chunk_key,
                               ChunkFilePath(chunk_key), cfg)

\* ------------------------------------------------------------ graph storage

\* A graph g is [nodes, edges]: nodes maps a node id to its attributes,
\* edges maps an undirected edge, the set of its endpoints, to its
\* attributes (a self-loop would be a one-element set).
EmptyGraph == [nodes |-> <<>>, edges |-> <<>>]

EdgeKey(src, tgt) == {src, tgt}

has_node(g, id) == id \in DOMAIN g.nodes

get_node(g, id) == IF id \in DOMAIN g.nodes THEN g.nodes[id] ELSE None

has_edge(g, src, tgt) == EdgeKey(src, tgt) \in DOMAIN g.edges

get_edge(g, src, tgt) ==
    IF EdgeKey(src, tgt) \in DOMAIN g.edges THEN g.edges[EdgeKey(src, tgt)] ELSE None

\* upsert: the attributes given replace the stored ones of the same name,
\* the other stored attributes stay.
upsert_node(g, id, node_data) ==
    [g EXCEPT !.nodes =
        (id :> (IF id \in DOMAIN @ THEN node_data @@ @[id] ELSE node_data)) @@ @]

upsert_edge(g, src, tgt, edge_data) ==
    LET key == EdgeKey(src, tgt)
    IN  [g EXCEPT !.edges =
            (key :> (IF key \in DOMAIN @ THEN edge_data @@ @[key] ELSE edge_data)) @@ @]

\* Neighbours of a node id along the stored edges.
Neighbours(g, id) == {y \in UNION (DOMAIN g.edges) : y # id /\ {id, y} \in DOMAIN g.edges}

\* The simple paths that extend path p by 1..depth hops.
RECURSIVE SimplePaths(_, _, _)
SimplePaths(g, p, depth) ==
    IF depth = 0 THEN {}
    ELSE LET ext == {Append(p, y) : y \in Neighbours(g, p[Len(p)]) \ Range(p)}
         IN  ext \cup UNION {SimplePaths(g, q, depth - 1) : q \in ext}

\* The lists of at most n distinct elements of a set.
RECURSIVE PathLists(_, _)
PathLists(cand, n) ==
    IF n = 0 THEN {<<>>}
    ELSE {<<>>} \cup UNION {{<<p>> \o l : l \in PathLists(cand \ {p}, n - 1)} : p \in cand}

\* Strength the store gives a path it returns.
PathStrength == 1

\* multi_hop_paths(src, max_depth, top_k): the answers the store may give,
\* each a list of at most top_k (and at most MaxPaths) paths that start at
\* src; a path of the single entity src stands for a degenerate answer.
multi_hop_paths(g, src, max_depth, top_k) ==
    LET cand == {<<src>>} \cup SimplePaths(g, <<src>>, max_depth)
        rec(p) == [path_entities |-> p, path_strength |-> PathStrength,
                   path_description |-> <<"">>, path_keywords |-> {}]
        limit == IF MaxPaths < top_k THEN MaxPaths ELSE top_k
    IN  {[i \in 1..Len(l) |-> rec(l[i])] : l \in PathLists(cand, limit)}

\* detect_communities(): node id -> community, for every node of the graph.
detect_communities(g) == [id \in DOMAIN g.nodes |-> "0"]

\* ------------------------------------------------------------------- merge

\* sorted(Counter(types).items(), key=count, reverse=True)[0][0]: the most
\* frequent type, the first counted among equals (the sort is stable).
MostFrequent(types) ==
    LET Count(t) == Cardinality({i \in 1..Len(types) : types[i] = t})
        First(t) == CHOOSE i \in 1..Len(types) :
                        types[i] = t /\ \A j \in 1..(i - 1) : types[j] # t
    IN  CHOOSE t \in Range(types) :
            \A u \in Range(types) \ {t} :
                Count(t) > Count(u) \/ (Count(t) = Count(u) /\ First(t) < First(u))

\* The strings of a list of records' field, as a set (set([...])).
FieldSet(data, field) == {<<data[i][field]>> : i \in 1..Len(data)}

\* The test that sends a merged description to _handle_entity_relation_summary,
\* without its comparison to the threshold.
SummaryAboveOneFragment(num_fragment, threshold) == num_fragment > 1

\* "if num_fragment > 1: if num_fragment >= force_llm_summary_on_merge".
NeedsSummary(num_fragment, threshold) ==
    num_fragment > 1 /\ num_fragment >= threshold

\* global_config.get(key) of a toggle.
ConfigFlag(cfg, key) == key \in DOMAIN cfg /\ cfg[key]

\* _merge_nodes_then_upsert: [g |-> the graph after the call, ret |-> the
\* node data returned, or None, llm_calls |-> what the call asked the LLM].
\* llm is the summary the LLM would give, enriched its completed description.
_merge_nodes_then_upsert(g, entity_name_in, nodes_data, force_llm_summary_on_merge, llm, enable_description_enrichment, enriched) ==
    LET entity_name == standardize_entity_name(entity_name_in)
        already_node == get_node(g, entity_name)
        Has(f) == already_node # None /\ f \in DOMAIN already_node
        already_entity_types == IF Has("entity_type") THEN <<already_node.entity_type>> ELSE <<>>
        already_source_ids == IF Has("source_id") THEN already_node.source_id ELSE {}
        already_file_paths == IF Has("file_path") THEN already_node.file_path ELSE {}
        already_description == IF Has("description") THEN {already_node.description} ELSE {}
        already_entity_communities ==
            IF Has("entity_community") THEN {already_node.entity_community} ELSE {}
        entity_type ==
            MostFrequent([i \in 1..Len(nodes_data) |-> nodes_data[i].entity_type]
                         \o already_entity_types)
        joined == JoinSorted(FieldSet(nodes_data, "description") \cup already_description)
        description == IF enable_description_enrichment THEN enriched ELSE joined
        source_id == {nodes_data[i].source_id : i \in 1..Len(nodes_data)} \cup already_source_ids
        file_path == {nodes_data[i].file_path : i \in 1..Len(nodes_data)} \cup already_file_paths
        entity_community ==
            JoinSorted(FieldSet(nodes_data, "entity_community") \cup already_entity_communities)
        num_fragment == NumFragment(description)
        summarise == NeedsSummary(num_fragment, force_llm_summary_on_merge)
        final_description == IF summarise THEN llm ELSE description
        llm_calls == [kind |-> "entity", id |-> entity_name, joined |-> joined,
                      enrich |-> enable_description_enrichment,
                      summary |-> summarise, stored |-> final_description]
        node_data == [entity_type |-> entity_type,
                      description |-> final_description,
                      entity_community |-> entity_community,
                      source_id |-> source_id,
                      file_path |-> file_path]
    IN  IF IsBlank(joined) THEN [g |-> g, ret |-> None, llm_calls |-> None]
        ELSE IF source_id = {} /\ file_path = {} THEN [g |-> g, ret |-> None, llm_calls |-> None]
        ELSE [g |-> upsert_node(g, entity_name, node_data),
              ret |-> [entity_name |-> entity_name] @@ node_data,
              llm_calls |-> llm_calls]

\* The stub node _merge_edges_then_upsert creates for a missing endpoint.
InsertMissingNode(g, need_insert_id, source_id, file_path, description) ==
    IF has_node(g, need_insert_id) THEN g
    ELSE IF source_id = {} /\ file_path = {} THEN g
    ELSE upsert_node(g, need_insert_id,
                     [source_id |-> source_id, description |-> description,
                      entity_type |-> "UNKNOWN", file_path |-> file_path])

\* _merge_edges_then_upsert without its opening guard.
SameEndpointsUnchecked(src_id, tgt_id) == FALSE

\* The guard that opens _merge_edges_then_upsert: "if src_id == tgt_id".
SameEndpoints(src_id, tgt_id) == src_id = tgt_id

\* _merge_edges_then_upsert: [g, ret], ret the edge data returned or None.
_merge_edges_then_upsert(g, src_in, tgt_in, edges_data, force_llm_summary_on_merge, llm) ==
    LET src_id == standardize_entity_name(src_in)
        tgt_id == standardize_entity_name(tgt_in)
        already_edge == get_edge(g, src_id, tgt_id)
        Has(f) == already_edge # None /\ f \in DOMAIN already_edge
        already_weights ==
            IF already_edge = None THEN <<>>
            ELSE IF Has("weight") THEN <<already_edge.weight>> ELSE <<0>>
        already_source_ids == IF Has("source_id") THEN already_edge.source_id ELSE {}
        already_file_paths == IF Has("file_path") THEN already_edge.file_path ELSE {}
        already_description == IF Has("description") THEN {already_edge.description} ELSE {}
        already_keywords == IF Has("keywords") THEN already_edge.keywords ELSE {}
        weight == SumSeq([i \in 1..Len(edges_data) |-> edges_data[i].weight]
                         \o already_weights)
        description ==
            JoinSorted({<<edges_data[i].description>> :
                           i \in {j \in 1..Len(edges_data) : edges_data[j].description # ""}}
                       \cup already_description)
        keywords == already_keywords
                    \cup UNION {edges_data[i].keywords : i \in 1..Len(edges_data)}
        source_id == {edges_data[i].source_id : i \in 1..Len(edges_data)} \cup already_source_ids
        file_path == {edges_data[i].file_path : i \in 1..Len(edges_data)} \cup already_file_paths
        g1 == InsertMissingNode(g, src_id, source_id, file_path, description)
        g2 == InsertMissingNode(g1, tgt_id, source_id, file_path, description)
        num_fragment == NumFragment(description)
        summarise == NeedsSummary(num_fragment, force_llm_summary_on_merge)
        final_description == IF summarise THEN llm ELSE description
        llm_calls == [kind |-> "edge", id |-> EdgeKey(src_id, tgt_id),
                      joined |-> description, enrich |-> FALSE,
                      summary |-> summarise, stored |-> final_description]
        edge_data == [weight |-> weight, description |-> final_description,
                      keywords |-> keywords, source_id |-> source_id,
                      file_path |-> file_path]
    IN  IF SameEndpoints(src_in, tgt_in) THEN [g |-> g, ret |-> None, llm_calls |-> None]
        ELSE [g |-> upsert_edge(g2, src_id, tgt_id, edge_data),
              ret |-> [src_id |-> src_id, tgt_id |-> tgt_id,
                       description |-> final_description, keywords |-> keywords,
                       source_id |-> source_id, file_path |-> file_path],
              llm_calls |-> llm_calls]

\* combinations(entities, 2), in itertools' order.
Combinations2(entities) ==
    LET n == Len(entities)
        RECURSIVE From(_, _)
        From(i, j) ==
            IF i >= n THEN <<>>
            ELSE IF j > n THEN From(i + 1, i + 2)
            ELSE <<<<entities[i], entities[j]>>>> \o From(i, j + 1)
    IN  From(1, 2)

\* The loop that links an association or path node to its entities.
RECURSIVE LinkEntities(_, _, _, _)
LinkEntities(g, node_id, entities, edge_data) ==
    IF entities = <<>> THEN g
    ELSE LinkEntities(upsert_edge(g, node_id, entities[1], edge_data),
                      node_id, Tail(entities), edge_data)

\* The loop over the pairs of an association's entities.
RECURSIVE MergePairs(_, _, _, _, _)
MergePairs(g, pairs, edge_rec, force_llm_summary_on_merge, llm) ==
    IF pairs = <<>> THEN g
    ELSE MergePairs(_merge_edges_then_upsert(g, pairs[1][1], pairs[1][2], <<edge_rec>>,
                                             force_llm_summary_on_merge, llm).g,
                    Tail(pairs), edge_rec, force_llm_summary_on_merge, llm)

AssocId(assoc) ==
    compute_mdhash_id(
        JoinNames("::", SortNames([i \in 1..Len(assoc.entities) |->
                                      standardize_entity_name(assoc.entities[i])])),
        "assoc-")

\* _merge_association_then_upsert: [g, ret].
_merge_association_then_upsert(g, assoc, force_llm_summary_on_merge, llm) ==
    LET entities == [i \in 1..Len(assoc.entities) |->
                        standardize_entity_name(assoc.entities[i])]
        assoc_id == AssocId(assoc)
        description == <<assoc.description, assoc.generalization>>
        node_data == [entity_type |-> "ASSOCIATION",
                      description |-> description,
                      source_id |-> {assoc.source_id},
                      file_path |-> {assoc.file_path}]
        member_edge == [weight |-> assoc.strength,
                        description |-> <<assoc.generalization>>,
                        keywords |-> assoc.keywords,
                        source_id |-> {assoc.source_id},
                        file_path |-> {assoc.file_path}]
        pair_rec == [weight |-> assoc.strength, description |-> assoc.description,
                     keywords |-> assoc.keywords, source_id |-> assoc.source_id,
                     file_path |-> assoc.file_path]
        g1 == upsert_node(g, assoc_id, node_data)
        g2 == LinkEntities(g1, assoc_id, entities, member_edge)
        g3 == MergePairs(g2, Combinations2(entities), pair_rec,
                         force_llm_summary_on_merge, llm)
    IN  IF IsBlank(description) THEN [g |-> g, ret |-> None]
        ELSE IF node_data.source_id = {""} /\ node_data.file_path = {""}
        THEN [g |-> g, ret |-> None]
        ELSE [g |-> g3, ret |-> [entity_name |-> assoc_id] @@ node_data]

PathId(path) ==
    compute_mdhash_id(
        JoinNames("->", [i \in 1..Len(path.path_entities) |->
                            standardize_entity_name(path.path_entities[i])]),
        "mh-")

\* _merge_multi_hop_then_upsert: [g, ret, edges], edges the inserted edges
\* as (src_id, tgt_id) pairs.
_merge_multi_hop_then_upsert(g, path) ==
    LET entities == [i \in 1..Len(path.path_entities) |->
                        standardize_entity_name(path.path_entities[i])]
        path_id == PathId(path)
        description == <<path.path_description>>
        node_data == [entity_type |-> "MULTI_HOP",
                      description |-> description,
                      source_id |-> {path.source_id},
                      file_path |-> {path.file_path}]
        edge_info == [weight |-> path.path_strength,
                      description |-> description,
                      keywords |-> path.path_keywords,
                      source_id |-> {path.source_id},
                      file_path |-> {path.file_path}]
        g1 == upsert_node(g, path_id, node_data)
    IN  IF IsBlank(description) THEN [g |-> g, ret |-> None, edges |-> <<>>]
        ELSE IF node_data.source_id = {""} /\ node_data.file_path = {""}
        THEN [g |-> g, ret |-> None, edges |-> <<>>]
        ELSE [g |-> LinkEntities(g1, path_id, entities, edge_info),
              ret |-> [entity_name |-> path_id] @@ node_data,
              edges |-> [i \in 1..Len(entities) |-> <<path_id, entities[i]>>]]

\* The edge key as extracted, not sorted.
UnsortedEdgeKey(edge_key) == edge_key

\* The collection loop that opens merge_nodes_and_edges: chunk_results is
\* the list of per-chunk results; edge keys are sorted,
\* tuple(sorted(edge_key)).
SortedEdgeKey(edge_key) ==
    IF NameLt(edge_key[2], edge_key[1]) THEN <<edge_key[2], edge_key[1]>> ELSE edge_key

RECURSIVE ExtendAll(_, _, _)
ExtendAll(d, items, sorted_keys) ==
    IF items = <<>> THEN d
    ELSE ExtendAll(DictExtend(d, IF sorted_keys THEN SortedEdgeKey(items[1].k)
                                 ELSE items[1].k, items[1].v),
                   Tail(items), sorted_keys)

RECURSIVE Collect(_)
Collect(chunk_results) ==
    IF chunk_results = <<>>
    THEN [all_nodes |-> <<>>, all_edges |-> <<>>, all_assocs |-> <<>>,
          all_multi_hops |-> <<>>]
    ELSE LET n == Len(chunk_results)
             c == Collect(SubSeq(chunk_results, 1, n - 1))
             r == chunk_results[n]
         IN  [all_nodes |-> ExtendAll(c.all_nodes, r.maybe_nodes, FALSE),
              all_edges |-> ExtendAll(c.all_edges, r.maybe_edges, TRUE),
              all_assocs |-> c.all_assocs \o r.maybe_assocs,
              all_multi_hops |-> c.all_multi_hops \o r.maybe_multi_hops]

\* ------------------------------------------------------------------- state

Workers == {"w1", "w2"}

VARIABLES
    config,             \* global_config: the feature toggles
    nodes, edges,       \* knowledge_graph_inst
    entity_vdb,         \* entity_vdb: the entity names upserted (ent-<hash(name)>)
    relationships_vdb,  \* relationships_vdb: the (src_id, tgt_id) upserted (rel-<hash(src+tgt)>)
    graph_db_lock,      \* the worker that holds the graph-DB lock, or "free"
    pc,                 \* where each worker's merge_nodes_and_edges call stands
    batch,              \* each call's chunks, whose results are chunk_results
    loc,                \* each call's local lists
    npass,              \* calls begun
    pre,                \* history: the graph when the running pass took the lock
    last,               \* history: how the last pass ended, and its batch
    written,            \* history: per edge, the weight it was created with plus the
                        \* weights of the records written to it since
    task, sem, main, pending, results,  \* extract_entities (below)
    nchunks,            \* history: chunks merged so far
    calls,              \* history: the LLM calls of the last merge pass
    query_param,        \* kg_query: the caller's QueryParam (its mode is rewritten)
    kq,                 \* kg_query: where the call stands, and its locals
    hashing_kv,         \* the response cache: the entries saved
    ncalls,             \* kg_query calls begun
    deepsearch,         \* deepsearch_query: its tree queue, counters and last expansion
    paging,             \* a paged retrieval: the store asked and the pages returned
    gleaning,           \* _process_single_content: a chunk's result and gleaning rounds
    profiles,           \* user_profile: the user's profile file, and the last call on it
    conversations,      \* user_profile: a conversation's stored history, and the query at the route
    textunits           \* text-unit assembly: the chunk lookup and the fetch tasks

mergeVars == <<config, nodes, edges, entity_vdb, relationships_vdb, graph_db_lock,
               pc, batch, loc, npass, pre, last, written>>
extractVars == <<task, sem, main, pending, results>>
summaryVars == <<nchunks, calls>>
queryVars == <<query_param, kq, hashing_kv, ncalls>>
userVars == <<profiles, conversations, textunits>>
pureVars == <<deepsearch, paging, gleaning, userVars>>
otherVars == <<summaryVars, queryVars, pureVars>>
vars == <<config, nodes, edges, entity_vdb, relationships_vdb, graph_db_lock,
          pc, batch, loc, npass, pre, last, written, task, sem, main, pending, results,
          nchunks, calls, query_param, kq, hashing_kv, ncalls,
          deepsearch, paging, gleaning, profiles, conversations, textunits>>

Graph == [nodes |-> nodes, edges |-> edges]

Configs ==
    [enable_association : {TRUE}, enable_latent_relation : {TRUE},
     enable_multi_hop : BOOLEAN, enable_community_detection : BOOLEAN]

\* global_config["force_llm_summary_on_merge"]
force_llm_summary_on_merge == DEFAULT_FORCE_LLM_SUMMARY_ON_MERGE

\* What the summary LLM answers.
LLMSummaries == {<<"s">>}

\* What the enrichment LLM answers.
Enrichment == <<"e">>

Injective(s) == \A i, j \in 1..Len(s) : i # j => s[i] # s[j]

\* The batches of one to MaxBatch distinct chunks.
Batches == {b \in UNION {[1..n -> Chunks] : n \in 1..MaxBatch} : Injective(b)}

ChunkResults(b, cfg) == [i \in 1..Len(b) |-> ChunkResult(b[i], cfg)]

\* all_nodes, all_edges, all_assocs, all_multi_hops of a worker's call.
All(w) == Collect(ChunkResults(batch[w], config))

EmptyLoc ==
    [i |-> 1, entities_data |-> <<>>, relationships_data |-> <<>>,
     associations_nodes |-> <<>>, multi_hop_nodes |-> <<>>,
     multi_hop_edges_from_paths |-> <<>>, multi_hop_edges |-> <<>>]

\* What the later steps read of a node data dict.
Brief(node_data) ==
    [entity_name |-> node_data.entity_name, source_id |-> node_data.source_id,
     file_path |-> node_data.file_path]

\* ----------------------------------------------- the order of the stages

\* The next stage that has something to do, from each point of the body of
\* merge_nodes_and_edges on (l: the local lists, all: the collections).
AtCommunity(l, all, cfg) ==
    IF cfg.enable_community_detection THEN "community" ELSE "release"

\* Line 1151 reads multi_hop_edges, which is bound only inside
\* "if enable_multi_hop" (line 1116).
AtFanoutVdb(l, all, cfg) ==
    IF ~cfg.enable_multi_hop THEN "unbound"
    ELSE IF l.multi_hop_edges # <<>> THEN "fanout_vdb"
    ELSE AtCommunity(l, all, cfg)

AtFanout(l, all, cfg) ==
    IF cfg.enable_multi_hop /\ l.entities_data # <<>> THEN "fanout"
    ELSE AtFanoutVdb(l, all, cfg)

AtRelVdb(l, all, cfg) ==
    IF l.relationships_data # <<>>
       \/ (cfg.enable_multi_hop /\ l.multi_hop_edges_from_paths # <<>>)
    THEN "rel_vdb" ELSE AtFanout(l, all, cfg)

AtEntVdb(l, all, cfg) ==
    IF l.entities_data # <<>>
       \/ (cfg.enable_association /\ l.associations_nodes # <<>>)
       \/ (cfg.enable_multi_hop /\ l.multi_hop_nodes # <<>>)
    THEN "ent_vdb" ELSE AtRelVdb(l, all, cfg)

AtMhops(l, all, cfg) ==
    IF cfg.enable_multi_hop /\ all.all_multi_hops # <<>> THEN "mhops"
    ELSE AtEntVdb(l, all, cfg)

AtAssocs(l, all, cfg) ==
    IF cfg.enable_association /\ all.all_assocs # <<>> THEN "assocs"
    ELSE AtMhops(l, all, cfg)

AtEdges(l, all, cfg) ==
    IF all.all_edges # <<>> THEN "edges" ELSE AtAssocs(l, all, cfg)

AtNodes(l, all, cfg) ==
    IF all.all_nodes # <<>> THEN "nodes" ELSE AtEdges(l, all, cfg)

InPass(w) == pc[w] \notin {"idle", "lock"}

\* -------------------------------------------------------- history helpers

AddWritten(wr, key, weight) ==
    (key :> ((IF key \in DOMAIN wr THEN wr[key] ELSE 0) + weight)) @@ wr

\* contribs: a sequence of [k |-> edge, w |-> weight written by a record].
RECURSIVE AddAllWritten(_, _)
AddAllWritten(wr, contribs) ==
    IF contribs = <<>> THEN wr
    ELSE AddAllWritten(AddWritten(wr, contribs[1].k, contribs[1].w), Tail(contribs))

\* ------------------------------------------- merge_nodes_and_edges, by step

\* A step of worker w's call that leaves graph g, local lists l, and the
\* call at stage next.
Advance(w, g, l, next, wr) ==
    /\ nodes' = g.nodes
    /\ edges' = g.edges
    /\ loc' = [loc EXCEPT ![w] = l]
    /\ pc' = [pc EXCEPT ![w] = next]
    /\ written' = wr

\* The call is made: the collection loop (lines 947-971) reads chunk_results.
\* The workers are interchangeable: w2's call is followed only when it
\* overlaps a call of w1.
Begin(w) ==
    /\ pc[w] = "idle"
    /\ npass < MaxPasses
    /\ w = "w1" \/ pc["w1"] # "idle"
    /\ \E b \in Batches : batch' = [batch EXCEPT ![w] = b]
    /\ pc' = [pc EXCEPT ![w] = "lock"]
    /\ loc' = [loc EXCEPT ![w] = EmptyLoc]
    /\ npass' = npass + 1
    /\ UNCHANGED <<config, nodes, edges, entity_vdb, relationships_vdb, graph_db_lock,
                   pre, last, written>>
    /\ UNCHANGED <<extractVars, otherVars>>

\* async with graph_db_lock, entered without waiting for the lock.
AcquireUnlocked(w) ==
    /\ pc[w] = "lock"
    /\ graph_db_lock' = w
    /\ pc' = [pc EXCEPT ![w] = AtNodes(loc[w], All(w), config)]
    /\ pre' = Graph
    /\ UNCHANGED <<config, nodes, edges, entity_vdb, relationships_vdb, batch, loc,
                   npass, last, written>>
    /\ UNCHANGED <<extractVars, otherVars>>

\* async with graph_db_lock (line 976): the call waits until the lock is free.
Acquire(w) ==
    /\ graph_db_lock = "free"
    /\ AcquireUnlocked(w)

\* entities_data.append(entity_data) under "if entity_data is not None".
KeepEntityData(entities_data, entity_data) ==
    IF entity_data # None THEN Append(entities_data, Brief(entity_data))
    ELSE entities_data

\* relationships_data.append(edge_data) without the None test.
KeepEdgeDataUnchecked(relationships_data, edge_data, edge_key) ==
    Append(relationships_data,
           IF edge_data # None THEN <<edge_data.src_id, edge_data.tgt_id>> ELSE edge_key)

\* relationships_data.append(edge_data) under "if edge_data is not None".
KeepEdgeData(relationships_data, edge_data, edge_key) ==
    IF edge_data # None THEN Append(relationships_data, <<edge_data.src_id, edge_data.tgt_id>>)
    ELSE relationships_data

\* One turn of "for entity_name, entities in all_nodes.items()".
MergeNode(w) ==
    /\ pc[w] = "nodes"
    /\ \E llm \in LLMSummaries :
        LET all == All(w)
            l == loc[w]
            e == all.all_nodes[l.i]
            r == _merge_nodes_then_upsert(Graph, e.k, e.v, force_llm_summary_on_merge, llm,
                                          ConfigFlag(config, "enable_description_enrichment"),
                                          Enrichment)
            more == l.i < Len(all.all_nodes)
            l2 == [l EXCEPT !.entities_data = KeepEntityData(@, r.ret),
                            !.i = IF more THEN @ + 1 ELSE 1]
        IN  Advance(w, r.g, l2, IF more THEN "nodes" ELSE AtEdges(l2, all, config), written)
    /\ UNCHANGED <<config, entity_vdb, relationships_vdb, graph_db_lock, batch, npass,
                   pre, last>>
    /\ UNCHANGED <<extractVars, otherVars>>

\* One turn of "for edge_key, edges in all_edges.items()".
MergeEdge(w) ==
    /\ pc[w] = "edges"
    /\ \E llm \in LLMSummaries :
        LET all == All(w)
            l == loc[w]
            e == all.all_edges[l.i]
            r == _merge_edges_then_upsert(Graph, e.k[1], e.k[2], e.v,
                                          force_llm_summary_on_merge, llm)
            more == l.i < Len(all.all_edges)
            l2 == [l EXCEPT !.relationships_data = KeepEdgeData(@, r.ret, e.k),
                            !.i = IF more THEN @ + 1 ELSE 1]
            wr == IF r.ret = None THEN written
                  ELSE AddWritten(written, EdgeKey(r.ret.src_id, r.ret.tgt_id),
                                  SumSeq([j \in 1..Len(e.v) |-> e.v[j].weight]))
        IN  Advance(w, r.g, l2, IF more THEN "edges" ELSE AtAssocs(l2, all, config), wr)
    /\ UNCHANGED <<config, entity_vdb, relationships_vdb, graph_db_lock, batch, npass,
                   pre, last>>
    /\ UNCHANGED <<extractVars, otherVars>>

\* The weights one association writes: its strength on every member edge
\* and on every pair that _merge_edges_then_upsert accepts.
AssocContribs(assoc) ==
    LET entities == [i \in 1..Len(assoc.entities) |->
                        standardize_entity_name(assoc.entities[i])]
        pairs == Combinations2(entities)
        kept == {j \in 1..Len(pairs) : pairs[j][1] # pairs[j][2]}
        RECURSIVE Pairs(_)
        Pairs(j) == IF j > Len(pairs) THEN <<>>
                    ELSE (IF j \in kept
                          THEN <<[k |-> EdgeKey(pairs[j][1], pairs[j][2]),
                                  w |-> assoc.strength]>>
                          ELSE <<>>) \o Pairs(j + 1)
    IN  [i \in 1..Len(entities) |->
            [k |-> EdgeKey(AssocId(assoc), entities[i]), w |-> assoc.strength]]
        \o Pairs(1)

\* One turn of "for assoc in all_assocs".
MergeAssoc(w) ==
    /\ pc[w] = "assocs"
    /\ \E llm \in LLMSummaries :
        LET all == All(w)
            l == loc[w]
            assoc == all.all_assocs[l.i]
            r == _merge_association_then_upsert(Graph, assoc, force_llm_summary_on_merge, llm)
            more == l.i < Len(all.all_assocs)
            l2 == [l EXCEPT !.associations_nodes =
                                IF r.ret # None THEN Append(@, Brief(r.ret)) ELSE @,
                            !.i = IF more THEN @ + 1 ELSE 1]
            wr == IF r.ret = None THEN written
                  ELSE AddAllWritten(written, AssocContribs(assoc))
        IN  Advance(w, r.g, l2, IF more THEN "assocs" ELSE AtMhops(l2, all, config), wr)
    /\ UNCHANGED <<config, entity_vdb, relationships_vdb, graph_db_lock, batch, npass,
                   pre, last>>
    /\ UNCHANGED <<extractVars, otherVars>>

\* One turn of "for mh in all_multi_hops".
MergeMultiHop(w) ==
    /\ pc[w] = "mhops"
    /\ LET all == All(w)
           l == loc[w]
           mh == all.all_multi_hops[l.i]
           r == _merge_multi_hop_then_upsert(Graph, mh)
           more == l.i < Len(all.all_multi_hops)
           l2 == [l EXCEPT !.multi_hop_nodes =
                               IF r.ret # None THEN Append(@, Brief(r.ret)) ELSE @,
                           !.multi_hop_edges_from_paths = @ \o r.edges,
                           !.i = IF more THEN @ + 1 ELSE 1]
           wr == AddAllWritten(written,
                    [j \in 1..Len(r.edges) |->
                        [k |-> EdgeKey(r.edges[j][1], r.edges[j][2]), w |-> mh.path_strength]])
       IN  Advance(w, r.g, l2, IF more THEN "mhops" ELSE AtEntVdb(l2, all, config), wr)
    /\ UNCHANGED <<config, entity_vdb, relationships_vdb, graph_db_lock, batch, npass,
                   pre, last>>
    /\ UNCHANGED <<extractVars, otherVars>>

\* Lines 1056-1078: all_nodes_data is entities_data itself, and += extends
\* that list in place.
UpsertEntityVdb(w) ==
    /\ pc[w] = "ent_vdb"
    /\ LET l == loc[w]
           all_nodes_data ==
               l.entities_data
               \o (IF config.enable_association THEN l.associations_nodes ELSE <<>>)
               \o (IF config.enable_multi_hop THEN l.multi_hop_nodes ELSE <<>>)
           l2 == [l EXCEPT !.entities_data = all_nodes_data]
       IN  /\ entity_vdb' = entity_vdb
                            \cup {all_nodes_data[j].entity_name : j \in 1..Len(all_nodes_data)}
           /\ loc' = [loc EXCEPT ![w] = l2]
           /\ pc' = [pc EXCEPT ![w] = AtRelVdb(l2, All(w), config)]
    /\ UNCHANGED <<config, nodes, edges, relationships_vdb, graph_db_lock, batch, npass,
                   pre, last, written>>
    /\ UNCHANGED <<extractVars, otherVars>>

\* Lines 1087-1110: combined_edges is relationships_data itself.
UpsertRelVdb(w) ==
    /\ pc[w] = "rel_vdb"
    /\ LET l == loc[w]
           combined_edges ==
               l.relationships_data
               \o (IF config.enable_multi_hop THEN l.multi_hop_edges_from_paths ELSE <<>>)
           l2 == [l EXCEPT !.relationships_data = combined_edges]
       IN  /\ relationships_vdb' = relationships_vdb \cup Range(combined_edges)
           /\ loc' = [loc EXCEPT ![w] = l2]
           /\ pc' = [pc EXCEPT ![w] = AtFanout(l2, All(w), config)]
    /\ UNCHANGED <<config, nodes, edges, entity_vdb, graph_db_lock, batch, npass,
                   pre, last, written>>
    /\ UNCHANGED <<extractVars, otherVars>>

\* The loop "for p in paths" of the fan-out for entity ent: [g, edges].
RECURSIVE FanOutPaths(_, _, _, _)
FanOutPaths(g, ent, paths, multi_hop_edges) ==
    IF paths = <<>> THEN [g |-> g, edges |-> multi_hop_edges]
    ELSE LET p == paths[1]
             src == p.path_entities[1]
             tgt == p.path_entities[Len(p.path_entities)]
             edge_info == [weight |-> p.path_strength,
                           description |-> p.path_description,
                           keywords |-> p.path_keywords,
                           latent |-> TRUE,
                           source_id |-> ent.source_id,
                           file_path |-> ent.file_path]
         IN  IF Len(p.path_entities) < 2
             THEN FanOutPaths(g, ent, Tail(paths), multi_hop_edges)
             ELSE FanOutPaths(upsert_edge(g, src, tgt, edge_info), ent, Tail(paths),
                              Append(multi_hop_edges, <<src, tgt>>))

\* One turn of "for ent in entities_data" (lines 1117-1149); a path search
\* that raises is the empty answer.
FanOut(w) ==
    /\ pc[w] = "fanout"
    /\ LET l == loc[w]
           ent == l.entities_data[l.i]
       IN  \E paths \in multi_hop_paths(Graph, ent.entity_name, fanout_max_depth, fanout_top_k) :
             /\ Len(l.multi_hop_edges) + Len(paths) <= MaxPaths
             /\ LET r == FanOutPaths(Graph, ent, paths, l.multi_hop_edges)
                    more == l.i < Len(l.entities_data)
                    l2 == [l EXCEPT !.multi_hop_edges = r.edges,
                                    !.i = IF more THEN @ + 1 ELSE 1]
                    created == DOMAIN r.g.edges \ DOMAIN edges
                    wr == [k \in created |-> r.g.edges[k].weight] @@ written
                IN  Advance(w, r.g, l2,
                            IF more THEN "fanout" ELSE AtFanoutVdb(l2, All(w), config),
                            wr)
    /\ UNCHANGED <<config, entity_vdb, relationships_vdb, graph_db_lock, batch, npass,
                   pre, last>>
    /\ UNCHANGED <<extractVars, otherVars>>

\* Lines 1151-1165.
FanOutVdb(w) ==
    /\ pc[w] = "fanout_vdb"
    /\ relationships_vdb' = relationships_vdb \cup Range(loc[w].multi_hop_edges)
    /\ pc' = [pc EXCEPT ![w] = AtCommunity(loc[w], All(w), config)]
    /\ UNCHANGED <<config, nodes, edges, entity_vdb, graph_db_lock, batch, loc, npass,
                   pre, last, written>>
    /\ UNCHANGED <<extractVars, otherVars>>

\* The call ends: the lock is released on the way out of "async with".
Leave(w, status) ==
    /\ graph_db_lock' = "free"
    /\ pc' = [pc EXCEPT ![w] = "idle"]
    /\ last' = [status |-> status, batch |-> batch[w]]
    /\ batch' = [batch EXCEPT ![w] = <<>>]
    /\ loc' = [loc EXCEPT ![w] = EmptyLoc]
    /\ UNCHANGED <<config, nodes, edges, entity_vdb, relationships_vdb, npass, pre, written>>
    /\ UNCHANGED <<extractVars, otherVars>>

\* Line 1151 with enable_multi_hop off: multi_hop_edges is unbound, and the
\* NameError leaves the call.
RaiseNameError(w) ==
    /\ pc[w] = "unbound"
    /\ Leave(w, "name_error")

\* The loop over communities.items() (lines 1170-1180).
RECURSIVE UpsertCommunities(_, _, _)
UpsertCommunities(g, communities, ids) ==
    IF ids = {} THEN g
    ELSE LET node_id == CHOOSE id \in ids : TRUE
             node == get_node(g, node_id)
             entity_type == IF node # None /\ "entity_type" \in DOMAIN node
                            THEN node.entity_type ELSE "UNKNOWN"
         IN  UpsertCommunities(
                 upsert_node(g, node_id, [entity_type |-> entity_type,
                                          entity_community |-> <<communities[node_id]>>]),
                 communities, ids \ {node_id})

\* Lines 1167-1192.
Community(w) ==
    /\ pc[w] = "community"
    /\ LET communities == detect_communities(Graph)
           g == UpsertCommunities(Graph, communities, DOMAIN communities)
       IN  /\ Advance(w, g, loc[w], "release", written)
           /\ entity_vdb' = entity_vdb
                            \cup {id \in DOMAIN communities : get_node(Graph, id) # None}
    /\ UNCHANGED <<config, relationships_vdb, graph_db_lock, batch, npass, pre, last>>
    /\ UNCHANGED <<extractVars, otherVars>>

\* The body is done.
Release(w) ==
    /\ pc[w] = "release"
    /\ Leave(w, "ok")

\* A storage call raises: the exception leaves the call, what was written
\* stays written.
Abort(w) ==
    /\ pc[w] \in {"nodes", "edges", "assocs", "mhops", "ent_vdb", "rel_vdb",
                  "fanout", "fanout_vdb", "community"}
    /\ Leave(w, "storage_error")

\* extract_entities is not running.
ExtractOff ==
    /\ task = <<>>
    /\ sem = 0
    /\ main = "off"
    /\ pending = {}
    /\ results = None

\* What the specifications that follow add is not in use.
SummaryOff ==
    /\ nchunks = 0
    /\ calls = <<>>

QueryOff ==
    /\ query_param = None
    /\ kq = None
    /\ hashing_kv = {}
    /\ ncalls = 0

UserOff ==
    /\ profiles = None
    /\ conversations = None
    /\ textunits = None

PureOff ==
    /\ deepsearch = None
    /\ paging = None
    /\ gleaning = None
    /\ UserOff

OtherOff ==
    /\ SummaryOff
    /\ QueryOff
    /\ PureOff

InitMerge ==
    /\ config \in Configs
    /\ nodes = <<>>
    /\ edges = <<>>
    /\ entity_vdb = {}
    /\ relationships_vdb = {}
    /\ graph_db_lock = "free"
    /\ pc = [w \in Workers |-> "idle"]
    /\ batch = [w \in Workers |-> <<>>]
    /\ loc = [w \in Workers |-> EmptyLoc]
    /\ npass = 0
    /\ pre = EmptyGraph
    /\ last = [status |-> "none", batch |-> <<>>]
    /\ written = <<>>
    /\ ExtractOff
    /\ OtherOff

NextMerge ==
    \E w \in Workers :
        \/ Begin(w)
        \/ Acquire(w)
        \/ MergeNode(w)
        \/ MergeEdge(w)
        \/ MergeAssoc(w)
        \/ MergeMultiHop(w)
        \/ UpsertEntityVdb(w)
        \/ UpsertRelVdb(w)
        \/ FanOut(w)
        \/ FanOutVdb(w)
        \/ RaiseNameError(w)
        \/ Community(w)
        \/ Release(w)
        \/ Abort(w)

SpecMerge == InitMerge /\ [][NextMerge]_vars

\* ------------------------------------------------------- extract_entities

\* The chunk tasks, in the order of ordered_chunks.
Tasks == 1..NTasks

ChunkOrder == <<"c1", "c2", "c3">>

ordered_chunks == [t \in Tasks |-> ChunkOrder[((t - 1) % Len(ChunkOrder)) + 1]]

\* A task is "created" (waiting to enter the semaphore), "running" (inside
\* it), then "done", "failed" or "cancelled".
Finished(t) == task[t] \in {"done", "failed", "cancelled"}

\* A semaphore that never blocks.
semaphore_never_locked(holders) == FALSE

\* asyncio.Semaphore(llm_model_max_async): no slot is left once that many
\* tasks are inside "async with semaphore".
semaphore_locked(holders) == holders >= llm_model_max_async

\* async with semaphore: enter.
Enter(t) ==
    /\ main # "off"
    /\ task[t] = "created"
    /\ t \notin pending
    /\ ~semaphore_locked(sem)
    /\ task' = [task EXCEPT ![t] = "running"]
    /\ sem' = sem + 1
    /\ UNCHANGED <<main, pending, results>>
    /\ UNCHANGED <<mergeVars, otherVars>>

\* _process_single_content returns; the semaphore is left.
Finish(t) ==
    /\ task[t] = "running"
    /\ t \notin pending
    /\ task' = [task EXCEPT ![t] = "done"]
    /\ sem' = sem - 1
    /\ UNCHANGED <<main, pending, results>>
    /\ UNCHANGED <<mergeVars, otherVars>>

\* _process_single_content raises; the semaphore is left.
Fail(t) ==
    /\ task[t] = "running"
    /\ t \notin pending
    /\ task' = [task EXCEPT ![t] = "failed"]
    /\ sem' = sem - 1
    /\ UNCHANGED <<main, pending, results>>
    /\ UNCHANGED <<mergeVars, otherVars>>

\* Where extract_entities goes after it has cancelled the pending tasks,
\* had it not waited for them.
AfterCancelNoWait(pending_tasks) == "raised"

\* "if pending: await asyncio.wait(pending)", then raise.
AfterCancel(pending_tasks) == IF pending_tasks = {} THEN "raised" ELSE "draining"

\* asyncio.wait(tasks, return_when=FIRST_EXCEPTION) returns: a task has
\* raised, or all are done.  With a failed task in done, every pending task
\* is cancelled; with none, the results are collected and returned.
Wake ==
    /\ main = "waiting"
    /\ (\E t \in Tasks : task[t] = "failed") \/ (\A t \in Tasks : Finished(t))
    /\ LET not_done == {t \in Tasks : ~Finished(t)}
       IN  IF \E t \in Tasks : task[t] = "failed"
           THEN /\ pending' = not_done
                /\ main' = AfterCancel(not_done)
                /\ results' = None
           ELSE /\ pending' = {}
                /\ main' = "returned"
                /\ results' = [t \in Tasks |-> ChunkResult(ordered_chunks[t], config)]
    /\ UNCHANGED <<task, sem>>
    /\ UNCHANGED <<mergeVars, otherVars>>

\* A cancelled task gets CancelledError at its await and ends; one inside
\* the semaphore leaves it.
Cancelled(t) ==
    /\ t \in pending
    /\ ~Finished(t)
    /\ task' = [task EXCEPT ![t] = "cancelled"]
    /\ sem' = IF task[t] = "running" THEN sem - 1 ELSE sem
    /\ UNCHANGED <<main, pending, results>>
    /\ UNCHANGED <<mergeVars, otherVars>>

\* asyncio.wait(pending) returns; raise task.exception().
Raise ==
    /\ main = "draining"
    /\ \A t \in pending : Finished(t)
    /\ main' = "raised"
    /\ UNCHANGED <<task, sem, pending, results>>
    /\ UNCHANGED <<mergeVars, otherVars>>

InitExtract ==
    /\ config \in Configs
    /\ nodes = <<>>
    /\ edges = <<>>
    /\ entity_vdb = {}
    /\ relationships_vdb = {}
    /\ graph_db_lock = "free"
    /\ pc = [w \in Workers |-> "idle"]
    /\ batch = [w \in Workers |-> <<>>]
    /\ loc = [w \in Workers |-> EmptyLoc]
    /\ npass = 0
    /\ pre = EmptyGraph
    /\ last = [status |-> "none", batch |-> <<>>]
    /\ written = <<>>
    /\ task = [t \in Tasks |-> "created"]
    /\ sem = 0
    /\ main = "waiting"
    /\ pending = {}
    /\ results = None
    /\ OtherOff

NextExtract ==
    \/ \E t \in Tasks : Enter(t)
    \/ \E t \in Tasks : Finish(t)
    \/ \E t \in Tasks : Fail(t)
    \/ Wake
    \/ \E t \in Tasks : Cancelled(t)
    \/ Raise

SpecExtract == InitExtract /\ [][NextExtract]_vars

\* ------------------------------------- merge passes and the summary LLM

\* The chunks of these passes: they carry entity and relation records only.
SummaryChunks == {"c1", "c2", "c4"}

SummaryBatches ==
    {b \in UNION {[1..n -> SummaryChunks] : n \in 1..MaxBatch} : Injective(b)}

\* global_config with its summary threshold and enrichment toggle.
SummaryConfigs ==
    [enable_association : {TRUE}, enable_latent_relation : {TRUE},
     enable_multi_hop : {TRUE}, enable_community_detection : {FALSE},
     force_llm_summary_on_merge : {2, 3, DEFAULT_FORCE_LLM_SUMMARY_ON_MERGE},
     enable_description_enrichment : BOOLEAN]

\* "for entity_name, entities in all_nodes.items()", whole: acc is
\* [g, calls], calls listing what each merge asked the LLM.
RECURSIVE MergeAllNodes(_, _, _, _)
MergeAllNodes(acc, all_nodes, cfg, llm) ==
    IF all_nodes = <<>> THEN acc
    ELSE LET r == _merge_nodes_then_upsert(acc.g, all_nodes[1].k, all_nodes[1].v,
                                           cfg.force_llm_summary_on_merge, llm,
                                           ConfigFlag(cfg, "enable_description_enrichment"),
                                           Enrichment)
         IN  MergeAllNodes([g |-> r.g,
                            calls |-> IF r.llm_calls = None THEN acc.calls
                                      ELSE Append(acc.calls, r.llm_calls)],
                           Tail(all_nodes), cfg, llm)

\* "for edge_key, edges in all_edges.items()", whole.
RECURSIVE MergeAllEdges(_, _, _, _)
MergeAllEdges(acc, all_edges, cfg, llm) ==
    IF all_edges = <<>> THEN acc
    ELSE LET r == _merge_edges_then_upsert(acc.g, all_edges[1].k[1], all_edges[1].k[2],
                                           all_edges[1].v,
                                           cfg.force_llm_summary_on_merge, llm)
         IN  MergeAllEdges([g |-> r.g,
                            calls |-> IF r.llm_calls = None THEN acc.calls
                                      ELSE Append(acc.calls, r.llm_calls)],
                           Tail(all_edges), cfg, llm)

\* The entity and relation loops of one merge_nodes_and_edges call on the
\* chunks of b, run under the lock from start to end.  The stages after
\* them write the vector stores and path nodes, and leave the descriptions
\* written here as they are.
MergeEntitiesAndRelations(b) ==
    /\ npass < MaxPasses
    /\ \E llm \in LLMSummaries :
        LET all == Collect(ChunkResults(b, config))
            n == MergeAllNodes([g |-> Graph, calls |-> <<>>], all.all_nodes, config, llm)
            e == MergeAllEdges(n, all.all_edges, config, llm)
        IN  /\ nodes' = e.g.nodes
            /\ edges' = e.g.edges
            /\ calls' = e.calls
    /\ npass' = npass + 1
    /\ nchunks' = nchunks + Len(b)
    /\ batch' = [batch EXCEPT !["w1"] = b]
    /\ UNCHANGED <<config, entity_vdb, relationships_vdb, graph_db_lock, pc, loc,
                   pre, last, written>>
    /\ UNCHANGED <<extractVars, queryVars, pureVars>>

InitSummary ==
    /\ config \in SummaryConfigs
    /\ nodes = <<>>
    /\ edges = <<>>
    /\ entity_vdb = {}
    /\ relationships_vdb = {}
    /\ graph_db_lock = "free"
    /\ pc = [w \in Workers |-> "idle"]
    /\ batch = [w \in Workers |-> <<>>]
    /\ loc = [w \in Workers |-> EmptyLoc]
    /\ npass = 0
    /\ pre = EmptyGraph
    /\ last = [status |-> "none", batch |-> <<>>]
    /\ written = <<>>
    /\ ExtractOff
    /\ QueryOff
    /\ PureOff
    /\ nchunks = 0
    /\ calls = <<>>

NextSummary == \E b \in SummaryBatches : MergeEntitiesAndRelations(b)

SpecSummary == InitSummary /\ [][NextSummary]_vars

\* ------------------------------------------------------------------- kg_query

\* Bound: kg_query calls made on one response cache.
MaxCalls == 2

\* The modes kg_query is called with.
Modes == {"local", "global", "hybrid", "mix"}

\* A keyword list: empty or not.
KeywordLists == {<<>>, <<"k">>}

QueryParams ==
    [mode : Modes, only_need_context : BOOLEAN, only_need_prompt : BOOLEAN,
     hl_keywords : KeywordLists, ll_keywords : KeywordLists]

\* hashing_kv.global_config and global_config, by the toggles read here.
QueryConfigs == [enable_llm_cache : BOOLEAN, enable_multi_hop : BOOLEAN]

\* What the LLM answers to the keyword-extraction prompt: text without
\* braces, braces that are not JSON, or a JSON object.
KeywordAnswers ==
    {[json |-> "none"], [json |-> "invalid"]}
    \cup [json : {"object"}, high_level_keywords : KeywordLists,
          low_level_keywords : KeywordLists, Community : {"", "c"}]

\* compute_args_hash(mode, query, cache_type=...), for the one query asked.
compute_args_hash(mode, cache_type) == <<cache_type, mode>>

\* save_to_cache: the entry is stored under its hash.  content is a record:
\* the keywords' JSON object, or [text |-> the string saved].
save_to_cache(kv, args_hash, content) == kv \cup {[args_hash |-> args_hash, content |-> content]}

\* None, where the code holds a string or None.
NoneStr == "None"

\* handle_cache: the content saved under the hash if there is one (a miss
\* is the code's None).
handle_cache(kv, args_hash) ==
    IF \E e \in kv : e.args_hash = args_hash
    THEN [hit |-> TRUE, content |-> (CHOOSE e \in kv : e.args_hash = args_hash).content]
    ELSE [hit |-> FALSE]

\* The lines of extract_keywords_only from the LLM's answer on: what it
\* returns (a tuple of two or of three) and the cache it leaves.
extract_keywords_only(answer, mode, cfg, kv) ==
    LET args_hash == compute_args_hash(mode, "keywords")
        cached_response == handle_cache(kv, args_hash)
    IN  IF cached_response.hit
        THEN [ret |-> <<cached_response.content.high_level_keywords,
                        cached_response.content.low_level_keywords,
                        cached_response.content.Community>>,
              kv |-> kv]
        ELSE IF answer.json # "object"
        THEN [ret |-> << <<>>, <<>> >>, kv |-> kv]
        ELSE LET hl_keywords == answer.high_level_keywords
                 ll_keywords == answer.low_level_keywords
                 community == answer.Community
                 cache_data == [high_level_keywords |-> hl_keywords,
                                low_level_keywords |-> ll_keywords,
                                Community |-> community]
             IN  [ret |-> <<hl_keywords, ll_keywords, community>>,
                  kv |-> IF (hl_keywords # <<>> \/ ll_keywords # <<>> \/ community # "")
                            /\ cfg.enable_llm_cache
                         THEN save_to_cache(kv, args_hash, cache_data) ELSE kv]

\* get_keywords_from_query: [raised, ret, kv]; unpacking a tuple of two
\* into three names raises ValueError.
get_keywords_from_query(param, answer, cfg, kv) ==
    IF param.hl_keywords # <<>> \/ param.ll_keywords # <<>>
    THEN [raised |-> FALSE, ret |-> <<param.hl_keywords, param.ll_keywords, "">>, kv |-> kv]
    ELSE LET r == extract_keywords_only(answer, param.mode, cfg, kv)
         IN  IF Len(r.ret) # 3 THEN [raised |-> TRUE, ret |-> <<>>, kv |-> r.kv]
             ELSE [raised |-> FALSE, ret |-> r.ret, kv |-> r.kv]

\* The mode switch of kg_query that does not switch a hybrid query.
ModeForKeywordsNotHybrid(mode, hl_keywords, ll_keywords) ==
    LET m1 == IF ll_keywords = <<>> /\ mode = "local" THEN "global" ELSE mode
    IN  IF hl_keywords = <<>> /\ m1 = "global" THEN "local" ELSE m1

\* The two mode switches of kg_query ("Handle empty keywords").
ModeForKeywords(mode, hl_keywords, ll_keywords) ==
    LET m1 == IF ll_keywords = <<>> /\ mode \in {"local", "hybrid"} THEN "global" ELSE mode
    IN  IF hl_keywords = <<>> /\ m1 \in {"global", "hybrid"} THEN "local" ELSE m1

\* The retrievals _build_query_context runs in a mode.
Retrievals(mode) ==
    IF mode = "local" THEN {"_get_node_data"}
    ELSE IF mode = "global" THEN {"_get_edge_data"}
    ELSE {"_get_node_data", "_get_edge_data"}

\* kg_query's locals before any call: mode is the mode it was called with,
\* answer the LLM's keyword answer if it was asked, ran the retrievals run.
KqIdle ==
    [pc |-> "idle", mode |-> "", got_keywords |-> FALSE,
     hl_keywords |-> <<>>, ll_keywords |-> <<>>,
     answer |-> None, ran |-> {}, context |-> NoneStr, ret |-> NoneStr]

\* What a kg_query step leaves alone.
notQuery == <<nodes, edges, entity_vdb, relationships_vdb, graph_db_lock, pc, batch,
              loc, npass, pre, last, written, extractVars, summaryVars, pureVars>>

\* kg_query is called: the cache is asked for the answer.
KgQuery ==
    /\ kq.pc \in {"idle", "returned", "raised"}
    /\ ncalls < MaxCalls
    /\ ncalls' = ncalls + 1
    /\ \E param \in QueryParams :
        LET cached_response == handle_cache(hashing_kv, compute_args_hash(param.mode, "query"))
        IN  /\ query_param' = param
            /\ kq' = IF cached_response.hit
                     THEN [KqIdle EXCEPT !.pc = "returned", !.mode = param.mode,
                                         !.ret = cached_response.content.text]
                     ELSE [KqIdle EXCEPT !.pc = "keywords", !.mode = param.mode]
    /\ UNCHANGED <<hashing_kv, config>>
    /\ UNCHANGED notQuery

\* get_keywords_from_query returns or raises; "Handle empty keywords".
GetKeywords ==
    /\ kq.pc = "keywords"
    /\ \E answer \in KeywordAnswers :
        LET r == get_keywords_from_query(query_param, answer, config, hashing_kv)
            asked == /\ query_param.hl_keywords = <<>>
                     /\ query_param.ll_keywords = <<>>
                     /\ ~handle_cache(hashing_kv,
                                      compute_args_hash(query_param.mode, "keywords")).hit
            k == [kq EXCEPT !.answer = IF asked THEN answer ELSE None]
        IN  /\ hashing_kv' = r.kv
            /\ IF r.raised
               THEN /\ kq' = [k EXCEPT !.pc = "raised"]
                    /\ UNCHANGED query_param
               ELSE IF r.ret[1] = <<>> /\ r.ret[2] = <<>>
               THEN /\ kq' = [k EXCEPT !.pc = "returned", !.ret = "fail_response",
                                       !.got_keywords = TRUE,
                                       !.hl_keywords = r.ret[1],
                                       !.ll_keywords = r.ret[2]]
                    /\ UNCHANGED query_param
               ELSE /\ kq' = [k EXCEPT !.pc = "context",
                                       !.got_keywords = TRUE,
                                       !.hl_keywords = r.ret[1],
                                       !.ll_keywords = r.ret[2]]
                    /\ query_param' =
                         [query_param EXCEPT !.mode = ModeForKeywords(@, r.ret[1], r.ret[2])]
    /\ UNCHANGED <<ncalls, config>>
    /\ UNCHANGED notQuery

\* _collect_multi_hop_paths, for one retrieved entity: the cache after it.
\* answered is whether the graph store's multi_hop_paths returned.
_collect_multi_hop_paths(kv, answered) ==
    LET cache_key == compute_args_hash("ent", "multi_hop")
    IN  IF handle_cache(kv, cache_key).hit THEN kv
        ELSE IF ~answered THEN kv
        ELSE save_to_cache(kv, cache_key, [text |-> "paths"])

\* _build_query_context returns; kg_query returns the context, the failure
\* answer or the prompt, or goes on to the LLM.
BuildQueryContext ==
    /\ kq.pc = "context"
    /\ \E entities_context, relations_context, answered \in BOOLEAN :
        LET context == IF ~entities_context /\ ~relations_context THEN NoneStr
                       ELSE "context"
            kv == IF context # NoneStr /\ config.enable_multi_hop /\ entities_context
                  THEN _collect_multi_hop_paths(hashing_kv, answered) ELSE hashing_kv
            k == [kq EXCEPT !.ran = Retrievals(query_param.mode), !.context = context]
        IN  /\ hashing_kv' = kv
            /\ kq' = IF query_param.only_need_context
                     THEN [k EXCEPT !.pc = "returned", !.ret = context]
                     ELSE IF context = NoneStr
                     THEN [k EXCEPT !.pc = "returned", !.ret = "fail_response"]
                     ELSE IF query_param.only_need_prompt
                     THEN [k EXCEPT !.pc = "returned", !.ret = "sys_prompt"]
                     ELSE [k EXCEPT !.pc = "llm"]
    /\ UNCHANGED <<query_param, ncalls, config>>
    /\ UNCHANGED notQuery

\* The LLM answers; the answer is saved and returned.
Respond ==
    /\ kq.pc = "llm"
    /\ hashing_kv' = IF config.enable_llm_cache
                     THEN save_to_cache(hashing_kv, compute_args_hash(kq.mode, "query"),
                                        [text |-> "response"])
                     ELSE hashing_kv
    /\ kq' = [kq EXCEPT !.pc = "returned", !.ret = "response"]
    /\ UNCHANGED <<query_param, ncalls, config>>
    /\ UNCHANGED notQuery

InitQuery ==
    /\ config \in QueryConfigs
    /\ nodes = <<>>
    /\ edges = <<>>
    /\ entity_vdb = {}
    /\ relationships_vdb = {}
    /\ graph_db_lock = "free"
    /\ pc = [w \in Workers |-> "idle"]
    /\ batch = [w \in Workers |-> <<>>]
    /\ loc = [w \in Workers |-> EmptyLoc]
    /\ npass = 0
    /\ pre = EmptyGraph
    /\ last = [status |-> "none", batch |-> <<>>]
    /\ written = <<>>
    /\ ExtractOff
    /\ SummaryOff
    /\ PureOff
    /\ query_param = None
    /\ kq = KqIdle
    /\ hashing_kv = {}
    /\ ncalls = 0

NextQuery ==
    \/ KgQuery
    \/ GetKeywords
    \/ BuildQueryContext
    \/ Respond

SpecQuery == InitQuery /\ [][NextQuery]_vars

\* ------------------------------------------------------------- deep search

\* Bound: the largest depth the LLM names.
MaxAnswerDepth == 3

\* Bound: the most candidate questions the LLM returns at once.
MaxCandidates == 4

\* The scores _evaluate_thought gives (0.0 and 1.0).
ScoreLevels == {0, 1}

Max(a, b) == IF a >= b THEN a ELSE b

Min(a, b) == IF a <= b THEN a ELSE b

\* What the LLM answers to the depth prompt: an integer or other text.
DepthAnswers == [int : BOOLEAN, value : 0..MaxAnswerDepth]

\* _determine_depth: the answer clamped to 1..4, or the fallback on the
\* query's length.
_determine_depth(response, long_query) ==
    IF response.int THEN Max(1, Min(4, response.value))
    ELSE IF long_query THEN 2 ELSE 1

\* "Paramètres adaptatifs".
MAX_INITIAL(MAX_DEPTH) == Max(2, Min(4, MAX_DEPTH))

MAX_FOLLOW(MAX_DEPTH) == Max(1, Min(3, MAX_DEPTH - 1))

\* The depth gate of the loop, letting the deepest nodes expand too.
AtOrBelowMaxDepth(depth, MAX_DEPTH) == depth <= MAX_DEPTH

\* "if node.depth < MAX_DEPTH".
BelowMaxDepth(depth, MAX_DEPTH) == depth < MAX_DEPTH

\* _select_thoughts without the scores: the first top_k thoughts.
FirstThoughts(scores, n, top_k) == [i \in 1..top_k |-> i]

\* _select_thoughts: the thoughts kept, as their positions in the list of n
\* thoughts; scores[i] is the score of the i-th (the sort is stable, a tie
\* keeps the list's order).
_select_thoughts(scores, n, top_k) ==
    IF n <= top_k THEN [i \in 1..n |-> i]
    ELSE LET Before(i) == Cardinality({j \in 1..n :
                              \/ scores[j] > scores[i]
                              \/ scores[j] = scores[i] /\ j < i})
         IN  [r \in 1..top_k |-> CHOOSE i \in 1..n : Before(i) = r - 1]

\* What a deep-search step leaves alone.
notDeep == <<config, nodes, edges, entity_vdb, relationships_vdb, graph_db_lock, pc, batch,
             loc, npass, pre, last, written, extractVars, summaryVars, queryVars,
             paging, gleaning, userVars>>

NoExpansion == [depth |-> 0, n |-> 0, scores |-> <<>>, selected |-> <<>>]

\* MAX_DEPTH = await _determine_depth(query, rag); the queue holds the root.
DetermineDepth ==
    /\ deepsearch.pc = "depth"
    /\ \E response \in DepthAnswers, long_query \in BOOLEAN :
        deepsearch' = [deepsearch EXCEPT !.pc = "loop",
                                         !.MAX_DEPTH = _determine_depth(response, long_query),
                                         !.queue = <<0>>]
    /\ UNCHANGED notDeep

\* One turn of "while queue": the node (its depth) is taken, answered if it
\* is not the root, and expanded if it is above the maximum depth.  n is the
\* number of questions the LLM returns, scores what it gives each of them.
Visit ==
    /\ deepsearch.pc = "loop"
    /\ deepsearch.queue # <<>>
    /\ LET d == deepsearch
           depth == Head(d.queue)
           answered == IF depth > 0 THEN d.answered + 1 ELSE d.answered
       IN  IF BelowMaxDepth(depth, d.MAX_DEPTH)
           THEN \E n \in (IF depth = 0 THEN 1 ELSE 0)..MaxCandidates :
                  LET top_k == Min(IF depth = 0 THEN MAX_INITIAL(d.MAX_DEPTH)
                                   ELSE MAX_FOLLOW(d.MAX_DEPTH), n)
                  IN  \E scores \in (IF n <= top_k THEN {<<>>} ELSE [1..n -> ScoreLevels]) :
                        LET selected == _select_thoughts(scores, n, top_k)
                        IN  deepsearch' =
                              [d EXCEPT !.answered = answered,
                                        !.followups = IF depth > 0 THEN @ + 1 ELSE @,
                                        !.queue = Tail(@) \o [i \in 1..Len(selected) |->
                                                                 depth + 1],
                                        !.expansion = [depth |-> depth, n |-> n,
                                                       scores |-> scores,
                                                       selected |-> selected]]
           ELSE deepsearch' = [d EXCEPT !.answered = answered, !.queue = Tail(@)]
    /\ UNCHANGED notDeep

\* The queue is empty: the report gets one section per answered question.
Report ==
    /\ deepsearch.pc = "loop"
    /\ deepsearch.queue = <<>>
    /\ deepsearch' = [deepsearch EXCEPT !.pc = "done"]
    /\ UNCHANGED notDeep

InitDeep ==
    /\ config \in {[enable_multi_hop |-> TRUE]}
    /\ nodes = <<>>
    /\ edges = <<>>
    /\ entity_vdb = {}
    /\ relationships_vdb = {}
    /\ graph_db_lock = "free"
    /\ pc = [w \in Workers |-> "idle"]
    /\ batch = [w \in Workers |-> <<>>]
    /\ loc = [w \in Workers |-> EmptyLoc]
    /\ npass = 0
    /\ pre = EmptyGraph
    /\ last = [status |-> "none", batch |-> <<>>]
    /\ written = <<>>
    /\ ExtractOff
    /\ SummaryOff
    /\ QueryOff
    /\ deepsearch = [pc |-> "depth", MAX_DEPTH |-> 0, queue |-> <<>>, answered |-> 0,
                     followups |-> 0, expansion |-> NoExpansion]
    /\ paging = None
    /\ gleaning = None
    /\ UserOff

NextDeep ==
    \/ DetermineDepth
    \/ Visit
    \/ Report

SpecDeep == InitDeep /\ [][NextDeep]_vars

\* deepsearch_query is a coroutine the event loop resumes whenever the LLM
\* call it awaits has answered: a step that can be taken is taken.
SpecDeepFair == InitDeep /\ [][NextDeep]_vars /\ WF_vars(NextDeep)

\* -------------------------------------------------------- paged retrieval

\* Bound: the entries of the vector store that match the query.
MaxStore == 4

\* Bound: the largest top_k asked.
MaxTopK == 2

\* Bound: the pages asked, 1 to MaxPage.
MaxPage == 2

\* An entry of the vector store: the entity's degree in the graph (its
\* rank) and the tokens of its text.
StoreEntries == [rank : {1, 2}, tokens : {1, 2}]

\* The stores: entries in the order of their similarity to the query.
Stores == UNION {[1..n -> StoreEntries] : n \in 0..MaxStore}

\* max_token_for_text_unit, max_token_for_local_context.
TokenBudgets == {2, 4}

\* vdb.query(query, top_k=fetch_k): the fetch_k most similar entries, as
\* their positions in the store.
VdbQuery(store, fetch_k) == [i \in 1..Min(fetch_k, Len(store)) |-> i]

\* truncate_list_by_token_size: the longest prefix within the budget.
truncate_list_by_token_size(list_data, store, max_token_size) ==
    LET Tokens(n) == SumSeq([i \in 1..n |-> store[list_data[i]].tokens])
        over == {i \in 1..Len(list_data) : Tokens(i) > max_token_size}
    IN  IF max_token_size <= 0 THEN <<>>
        ELSE IF over = {} THEN list_data
        ELSE SubSeq(list_data, 1, (CHOOSE i \in over : \A j \in over : i <= j) - 1)

\* sorted(node_datas, key=(rank, connectivity), reverse=True), for entities
\* no path joins (connectivity 0): descending rank, a tie keeps the order.
SortedByRank(hits, store) ==
    LET n == Len(hits)
        Before(i) == Cardinality({j \in 1..n :
                         \/ store[hits[j]].rank > store[hits[i]].rank
                         \/ store[hits[j]].rank = store[hits[i]].rank /\ j < i})
    IN  [r \in 1..n |-> hits[CHOOSE i \in 1..n : Before(i) = r - 1]]

\* list[offset : offset + top_k].
Window(list, offset, top_k) ==
    SubSeq(list, Min(offset, Len(list)) + 1, Min(offset + top_k, Len(list)))

\* _get_node_data: the entities of a page (no threshold or category filter).
_get_node_data(store, top_k, page, max_token_size) ==
    LET fetch_k == top_k * page
        hits == VdbQuery(store, fetch_k)
        node_datas == SortedByRank(hits, store)
        offset == top_k * (page - 1)
    IN  truncate_list_by_token_size(Window(node_datas, offset, top_k), store, max_token_size)

\* _get_vector_context: the chunks of a page.
_get_vector_context(store, top_k, page, max_token_size) ==
    LET fetch_k == top_k * page
        hits == VdbQuery(store, fetch_k)
        maybe_trun_chunks == truncate_list_by_token_size(hits, store, max_token_size)
        offset == top_k * (page - 1)
    IN  Window(maybe_trun_chunks, offset, top_k)

\* What a paged retrieval leaves alone.
notPaging == <<config, nodes, edges, entity_vdb, relationships_vdb, graph_db_lock, pc,
               batch, loc, npass, pre, last, written, extractVars, summaryVars, queryVars,
               deepsearch, gleaning, userVars>>

Unasked == [asked |-> FALSE, items |-> <<>>]

\* A local query asks for a page of entities.
GetNodeData(page) ==
    /\ ~paging.local[page].asked
    /\ paging' = [paging EXCEPT !.local[page] =
                     [asked |-> TRUE,
                      items |-> _get_node_data(paging.store, paging.top_k, page,
                                               paging.max_token_size)]]
    /\ UNCHANGED notPaging

\* A naive query asks for a page of chunks.
GetVectorContext(page) ==
    /\ ~paging.naive[page].asked
    /\ paging' = [paging EXCEPT !.naive[page] =
                     [asked |-> TRUE,
                      items |-> _get_vector_context(paging.store, paging.top_k, page,
                                                    paging.max_token_size)]]
    /\ UNCHANGED notPaging

InitPaging ==
    /\ config \in {[enable_multi_hop |-> TRUE]}
    /\ nodes = <<>>
    /\ edges = <<>>
    /\ entity_vdb = {}
    /\ relationships_vdb = {}
    /\ graph_db_lock = "free"
    /\ pc = [w \in Workers |-> "idle"]
    /\ batch = [w \in Workers |-> <<>>]
    /\ loc = [w \in Workers |-> EmptyLoc]
    /\ npass = 0
    /\ pre = EmptyGraph
    /\ last = [status |-> "none", batch |-> <<>>]
    /\ written = <<>>
    /\ ExtractOff
    /\ SummaryOff
    /\ QueryOff
    /\ deepsearch = None
    /\ gleaning = None
    /\ UserOff
    /\ paging \in [store : Stores, top_k : 1..MaxTopK, max_token_size : TokenBudgets,
                   local : {[p \in 1..MaxPage |-> Unasked]},
                   naive : {[p \in 1..MaxPage |-> Unasked]}]

NextPaging ==
    \E page \in 1..MaxPage :
        \/ GetNodeData(page)
        \/ GetVectorContext(page)

SpecPaging == InitPaging /\ [][NextPaging]_vars

\* ----------------------------------------------------------------- gleaning

\* Bound: entity_extract_max_gleaning.
entity_extract_max_gleaning == 2

\* Bound: the records of one LLM answer.
MaxRecords == 2

\* The records the LLM may give for the chunk, in a first answer or a
\* gleaning answer.
GleanRecords ==
    {[tag |-> "entity", name |-> "a", type |-> "person", desc |-> "d1"],
     [tag |-> "entity", name |-> "a", type |-> "person", desc |-> "d2"],
     [tag |-> "entity", name |-> "b", type |-> "person", desc |-> "d1"],
     [tag |-> "relationship", src |-> "a", tgt |-> "b", desc |-> "d1", kw |-> {"k1"}, w |-> 1],
     [tag |-> "relationship", src |-> "b", tgt |-> "a", desc |-> "d2", kw |-> {"k2"}, w |-> 1]}

GleanAnswers == UNION {[1..n -> GleanRecords] : n \in 0..MaxRecords}

GleanConfig ==
    [enable_association |-> TRUE, enable_latent_relation |-> TRUE,
     enable_multi_hop |-> TRUE, enable_community_detection |-> FALSE]

\* "Merge results - only add entities and edges with new names": the loops
\* over glean_nodes.items() and glean_edges.items().
RECURSIVE ExtendNew(_, _)
ExtendNew(d, items) ==
    IF items = <<>> THEN d
    ELSE ExtendNew(IF ~DictHas(d, items[1].k) THEN DictExtend(d, items[1].k, items[1].v)
                   ELSE d,
                   Tail(items))

\* One gleaning answer merged into the chunk's result.
MergeGleaning(maybe, glean) ==
    [maybe_nodes |-> ExtendNew(maybe.maybe_nodes, glean.maybe_nodes),
     maybe_edges |-> ExtendNew(maybe.maybe_edges, glean.maybe_edges),
     maybe_assocs |-> maybe.maybe_assocs \o glean.maybe_assocs,
     maybe_multi_hops |-> maybe.maybe_multi_hops \o glean.maybe_multi_hops]

\* What a gleaning step leaves alone.
notGleaning == <<config, nodes, edges, entity_vdb, relationships_vdb, graph_db_lock, pc,
                 batch, loc, npass, pre, last, written, extractVars, summaryVars, queryVars,
                 deepsearch, paging, userVars>>

\* One turn of "for now_glean_index in range(entity_extract_max_gleaning)":
\* the LLM's gleaning answer is processed and merged, and the LLM says
\* whether to go on.
GleanRound ==
    /\ gleaning.pc = "glean"
    /\ \E glean_result \in GleanAnswers, if_loop_result \in {"yes", "no"} :
        LET g == gleaning
            glean == _process_extraction_result(glean_result, "c1", ChunkFilePath("c1"), config)
            stop == \/ g.now_glean_index = entity_extract_max_gleaning - 1
                    \/ if_loop_result # "yes"
        IN  gleaning' = [pc |-> IF stop THEN "done" ELSE "glean",
                         now_glean_index |-> g.now_glean_index + 1,
                         before |-> g.maybe,
                         maybe |-> MergeGleaning(g.maybe, glean)]
    /\ UNCHANGED notGleaning

InitGlean ==
    /\ config = GleanConfig
    /\ nodes = <<>>
    /\ edges = <<>>
    /\ entity_vdb = {}
    /\ relationships_vdb = {}
    /\ graph_db_lock = "free"
    /\ pc = [w \in Workers |-> "idle"]
    /\ batch = [w \in Workers |-> <<>>]
    /\ loc = [w \in Workers |-> EmptyLoc]
    /\ npass = 0
    /\ pre = EmptyGraph
    /\ last = [status |-> "none", batch |-> <<>>]
    /\ written = <<>>
    /\ ExtractOff
    /\ SummaryOff
    /\ QueryOff
    /\ deepsearch = None
    /\ paging = None
    /\ UserOff
    /\ \E final_result \in GleanAnswers :
        LET maybe == _process_extraction_result(final_result, "c1", ChunkFilePath("c1"),
                                                GleanConfig)
        IN  gleaning = [pc |-> "glean", now_glean_index |-> 0, before |-> maybe,
                        maybe |-> maybe]

NextGlean == GleanRound

SpecGlean == InitGlean /\ [][NextGlean]_vars

\* ------------------------------------------------------------ user profiles

\* Bound: the update_user_profile and revert_user_profile calls of a run.
MaxProfileCalls == 3

\* A profile value is a dict (its items, a set of <<key, text>>) or a text
\* (one item under the key "").
DictValue(items) == [isdict |-> TRUE, items |-> items]

TextValue(text) == [isdict |-> FALSE, items |-> {<<"", text>>}]

\* dict.update(other) on the items of two dicts.
DictUpdate(items, other) ==
    {it \in items : ~\E o \in other : o[1] = it[1]} \cup other

NoData == [key \in {} |-> TextValue("")]

\* {} : what load_user_profile gives when the user has no file.
EmptyProfile ==
    [data |-> NoData, has_version |-> FALSE, _version |-> 0,
     has_history |-> FALSE, _history |-> <<>>]

\* The file <PROFILE_DIR>/<user_id>.json: absent, or the profile dumped.
NoFile == [exists |-> FALSE, profile |-> EmptyProfile]

load_user_profile(file) == IF file.exists THEN file.profile ELSE EmptyProfile

save_user_profile(profile) == [exists |-> TRUE, profile |-> profile]

\* bool(profile): a dict is true when it has a key.
Truthy(profile) ==
    DOMAIN profile.data # {} \/ profile.has_version \/ profile.has_history

\* profile.get("_version", 0)
GetVersion(profile) == IF profile.has_version THEN profile._version ELSE 0

\* A snapshot tagged with the new version.
SnapshotVersionNew(version) == version

\* "version": version - 1
SnapshotVersion(version) == version - 1

\* update_user_profile.  prev = profile.copy() is a shallow copy: a nested
\* dict of prev is the object profile holds, so what profile[key].update
\* merges into it is in prev when the profile is dumped; a key that is
\* assigned (profile[key] = value) keeps its old value in prev.
update_user_profile(file, updates) ==
    LET loaded == load_user_profile(file)
        version == GetVersion(loaded) + 1
        profile == [loaded EXCEPT !.has_history = TRUE]
        Merged(key) ==
            /\ key \in DOMAIN updates
            /\ updates[key].isdict
            /\ key \in DOMAIN profile.data
            /\ profile.data[key].isdict
        data == [key \in DOMAIN profile.data \cup DOMAIN updates |->
                    IF key \notin DOMAIN updates THEN profile.data[key]
                    ELSE IF Merged(key)
                         THEN DictValue(DictUpdate(profile.data[key].items,
                                                   updates[key].items))
                         ELSE updates[key]]
        prev == [data |-> [key \in DOMAIN profile.data |->
                              IF Merged(key) THEN data[key] ELSE profile.data[key]],
                 has_version |-> profile.has_version,
                 _version |-> profile._version]
        history == IF Truthy(profile)
                   THEN Append(profile._history,
                               [version |-> SnapshotVersion(version), profile |-> prev])
                   ELSE profile._history
        updated == [data |-> data, has_version |-> TRUE, _version |-> version,
                    has_history |-> TRUE, _history |-> history]
    IN  [file |-> save_user_profile(updated), ret |-> updated, raised |-> FALSE]

\* "for item in reversed(history)": the last item of the version, or 0.
RECURSIVE LastOfVersion(_, _, _)
LastOfVersion(history, version, i) ==
    IF i = 0 THEN 0
    ELSE IF history[i].version = version THEN i
    ELSE LastOfVersion(history, version, i - 1)

\* revert_user_profile: profile = item["profile"]; profile["_version"] =
\* version; the item's profile is saved and returned, or ValueError.
revert_user_profile(file, version) ==
    LET loaded == load_user_profile(file)
        history == loaded._history
        i == LastOfVersion(history, version, Len(history))
        profile == [data |-> history[i].profile.data, has_version |-> TRUE,
                    _version |-> version, has_history |-> FALSE, _history |-> <<>>]
    IN  IF i = 0 THEN [file |-> file, ret |-> EmptyProfile, raised |-> TRUE]
        ELSE [file |-> save_user_profile(profile), ret |-> profile, raised |-> FALSE]

\* The profiles a user starts with: none, or one saved by save_user_profile
\* (unversioned), with a nested dict or with a text under "preferences".
StoredProfiles ==
    {NoFile,
     save_user_profile([EmptyProfile EXCEPT
         !.data = [key \in {"preferences"} |-> DictValue({<<"lang", "fr">>})]]),
     save_user_profile([EmptyProfile EXCEPT
         !.data = [key \in {"preferences"} |-> TextValue("fr")]])}

\* The updates of a call.
ProfileUpdates ==
    {[key \in {"preferences"} |-> DictValue({<<"format", "md">>})],
     [key \in {"preferences"} |-> DictValue({<<"lang", "en">>})],
     [key \in {"context"} |-> DictValue({<<"org", "ANSE">>})],
     [key \in {"preferences"} |-> TextValue("md")]}

\* What a profile call leaves alone.
notProfiles == <<config, nodes, edges, entity_vdb, relationships_vdb, graph_db_lock, pc,
                 batch, loc, npass, pre, last, written, extractVars, summaryVars, queryVars,
                 deepsearch, paging, gleaning, conversations, textunits>>

UpdateUserProfile(updates) ==
    /\ profiles.ncalls < MaxProfileCalls
    /\ LET r == update_user_profile(profiles.file, updates)
       IN  profiles' = [file |-> r.file, before |-> profiles.file,
                        call |-> [name |-> "update", version |-> 0, raised |-> r.raised],
                        ret |-> r.ret, ncalls |-> profiles.ncalls + 1,
                        nreverts |-> profiles.nreverts, start |-> profiles.start]
    /\ UNCHANGED notProfiles

RevertUserProfile(version) ==
    /\ profiles.ncalls < MaxProfileCalls
    /\ LET r == revert_user_profile(profiles.file, version)
       IN  profiles' = [file |-> r.file, before |-> profiles.file,
                        call |-> [name |-> "revert", version |-> version,
                                  raised |-> r.raised],
                        ret |-> r.ret, ncalls |-> profiles.ncalls + 1,
                        nreverts |-> profiles.nreverts + 1, start |-> profiles.start]
    /\ UNCHANGED notProfiles

InitProfiles ==
    /\ config \in {GleanConfig}
    /\ nodes = <<>>
    /\ edges = <<>>
    /\ entity_vdb = {}
    /\ relationships_vdb = {}
    /\ graph_db_lock = "free"
    /\ pc = [w \in Workers |-> "idle"]
    /\ batch = [w \in Workers |-> <<>>]
    /\ loc = [w \in Workers |-> EmptyLoc]
    /\ npass = 0
    /\ pre = EmptyGraph
    /\ last = [status |-> "none", batch |-> <<>>]
    /\ written = <<>>
    /\ ExtractOff
    /\ SummaryOff
    /\ QueryOff
    /\ deepsearch = None
    /\ paging = None
    /\ gleaning = None
    /\ conversations = None
    /\ textunits = None
    /\ \E file \in StoredProfiles :
        profiles = [file |-> file, before |-> file,
                    call |-> [name |-> "none", version |-> 0, raised |-> FALSE],
                    ret |-> EmptyProfile, ncalls |-> 0, nreverts |-> 0, start |-> file]

NextProfiles ==
    \/ \E updates \in ProfileUpdates : UpdateUserProfile(updates)
    \/ \E version \in 0..MaxProfileCalls : RevertUserProfile(version)

SpecProfiles == InitProfiles /\ [][NextProfiles]_vars


\* ----------------------------------------------------- conversation history

\* Bound: the calls (appends and queries) of a run.
MaxHistoryCalls == 3

\* Bound: the messages of one append_conversation_history call.
MaxMessages == 2

\* Bound: the chunks of a streamed response.
MaxChunks == 2

\* Texts are sequences of characters (numbers); "".join is \o.
QueryText == <<0>>

\* What the LLM streams: chunks, the empty one included.
StreamChunks == {<<>>, <<1>>, <<2>>}

\* What the LLM answers when it does not stream.
Responses == {<<1>>, <<1, 2>>}

\* profile["conversations"]: no conversation stored yet.
NoConversations == [has |-> FALSE, history |-> <<>>]

\* get_conversation_history: conversations.get(conversation_id, [])
get_conversation_history(conversations_of_user) ==
    IF conversations_of_user.has THEN conversations_of_user.history ELSE <<>>

\* list[start:] as Python slices: a negative start counts from the end,
\* and -0 is 0.
SliceFrom(list, start) ==
    LET from == IF start < 0 THEN Max(Len(list) + start, 0) ELSE Min(start, Len(list))
    IN  SubSeq(list, from + 1, Len(list))

\* append_conversation_history
append_conversation_history(conversations_of_user, messages, max_messages) ==
    LET history == get_conversation_history(conversations_of_user) \o messages
    IN  [has |-> TRUE,
         history |-> IF Len(history) > max_messages
                     THEN SliceFrom(history, 0 - max_messages)
                     ELSE history]

\* The values of max_messages a caller passes.
MaxMessagesValues == {0, 1, 2, DEFAULT_MAX_MESSAGES}

\* [{"role": "user", "content": query}, {"role": "assistant", "content": ...}]
Exchange(query, response) ==
    <<[role |-> "user", content |-> query], [role |-> "assistant", content |-> response]>>

\* The k messages of a caller, numbered from n so that each is told apart.
NewMessages(n, k) ==
    [i \in 1..k |-> [role |-> IF i % 2 = 1 THEN "user" ELSE "assistant",
                     content |-> <<10 + n + i>>]]

\* LightRAG.aquery with param.user_id and param.conversation_id set: it
\* appends the exchange to the conversation itself (test_query_appends_history).
aquery_history(conversations_of_user, query, response) ==
    append_conversation_history(conversations_of_user, Exchange(query, response),
                                DEFAULT_MAX_MESSAGES)

\* "".join(collected)
RECURSIVE Join(_)
Join(collected) == IF collected = <<>> THEN <<>> ELSE Head(collected) \o Join(Tail(collected))

\* What a conversation step leaves alone.
notConversations == <<config, nodes, edges, entity_vdb, relationships_vdb, graph_db_lock,
                      pc, batch, loc, npass, pre, last, written, extractVars, summaryVars,
                      queryVars, deepsearch, paging, gleaning, profiles, textunits>>

NoRequest == [kind |-> "none", state |-> "none", collected |-> <<>>, streamed |-> <<>>,
              before |-> <<>>]

\* A caller appends messages.
AppendConversationHistory(k, max_messages) ==
    /\ conversations.ncalls < MaxHistoryCalls
    /\ conversations.request.state # "streaming"
    /\ LET messages == NewMessages(Len(conversations.appended), k)
       IN  conversations' =
               [stored |-> append_conversation_history(conversations.stored, messages,
                                                       max_messages),
                appended |-> conversations.appended \o messages,
                call |-> [before |-> get_conversation_history(conversations.stored),
                          messages |-> messages, max_messages |-> max_messages],
                request |-> NoRequest,
                ncalls |-> conversations.ncalls + 1]
    /\ UNCHANGED notConversations

\* POST /query with user_id and conversation_id: rag.aquery, then the
\* route's own append.
query_text(response) ==
    /\ conversations.ncalls < MaxHistoryCalls
    /\ conversations.request.state # "streaming"
    /\ LET exchange == Exchange(QueryText, response)
           after_aquery == aquery_history(conversations.stored, QueryText, response)
       IN  conversations' =
               [stored |-> append_conversation_history(after_aquery, exchange,
                                                       DEFAULT_MAX_MESSAGES),
                appended |-> conversations.appended \o exchange \o exchange,
                call |-> [before |-> get_conversation_history(after_aquery),
                          messages |-> exchange, max_messages |-> DEFAULT_MAX_MESSAGES],
                request |-> [kind |-> "text", state |-> "done", collected |-> <<>>,
                             streamed |-> response,
                             before |-> get_conversation_history(conversations.stored)],
                ncalls |-> conversations.ncalls + 1]
    /\ UNCHANGED notConversations

\* POST /query/stream: rag.aquery returns an iterator and the route
\* returns its StreamingResponse.
query_text_stream ==
    /\ conversations.ncalls < MaxHistoryCalls
    /\ conversations.request.state # "streaming"
    /\ conversations' =
           [conversations EXCEPT
               !.request = [kind |-> "stream", state |-> "streaming", collected |-> <<>>,
                            streamed |-> <<>>,
                            before |-> get_conversation_history(conversations.stored)],
               !.ncalls = @ + 1]
    /\ UNCHANGED notConversations

\* "async for chunk in response": a chunk is yielded; "if chunk:" collects it.
stream_chunk(chunk) ==
    /\ conversations.request.state = "streaming"
    /\ Len(conversations.request.collected) < MaxChunks
    /\ conversations' =
           [conversations EXCEPT
               !.request.collected = IF chunk # <<>> THEN Append(@, chunk) ELSE @,
               !.request.streamed = @ \o chunk]
    /\ UNCHANGED notConversations

\* The iterator is exhausted (aquery's append comes with its last step), or
\* it raises (the route yields the error); "finally" appends the exchange.
stream_end(raises) ==
    /\ conversations.request.state = "streaming"
    /\ LET response == Join(conversations.request.collected)
           exchange == Exchange(QueryText, response)
           after_aquery == IF raises THEN conversations.stored
                           ELSE aquery_history(conversations.stored, QueryText, response)
       IN  conversations' =
               [conversations EXCEPT
                   !.stored = append_conversation_history(after_aquery, exchange,
                                                          DEFAULT_MAX_MESSAGES),
                   !.appended = IF raises THEN @ \o exchange ELSE @ \o exchange \o exchange,
                   !.call = [before |-> get_conversation_history(after_aquery),
                             messages |-> exchange,
                             max_messages |-> DEFAULT_MAX_MESSAGES],
                   !.request.state = IF raises THEN "error" ELSE "done"]
    /\ UNCHANGED notConversations

InitConversations ==
    /\ config \in {GleanConfig}
    /\ nodes = <<>>
    /\ edges = <<>>
    /\ entity_vdb = {}
    /\ relationships_vdb = {}
    /\ graph_db_lock = "free"
    /\ pc = [w \in Workers |-> "idle"]
    /\ batch = [w \in Workers |-> <<>>]
    /\ loc = [w \in Workers |-> EmptyLoc]
    /\ npass = 0
    /\ pre = EmptyGraph
    /\ last = [status |-> "none", batch |-> <<>>]
    /\ written = <<>>
    /\ ExtractOff
    /\ SummaryOff
    /\ QueryOff
    /\ deepsearch = None
    /\ paging = None
    /\ gleaning = None
    /\ profiles = None
    /\ textunits = None
    /\ conversations = [stored |-> NoConversations, appended |-> <<>>,
                        call |-> [before |-> <<>>, messages |-> <<>>,
                                  max_messages |-> DEFAULT_MAX_MESSAGES],
                        request |-> NoRequest, ncalls |-> 0]

NextConversations ==
    \/ \E k \in 1..MaxMessages, max_messages \in MaxMessagesValues :
          AppendConversationHistory(k, max_messages)
    \/ \E response \in Responses : query_text(response)
    \/ query_text_stream
    \/ \E chunk \in StreamChunks : stream_chunk(chunk)
    \/ \E raises \in BOOLEAN : stream_end(raises)

SpecConversations == InitConversations /\ [][NextConversations]_vars


\* -------------------------------------------------------- text-unit assembly

\* Bound: the edges retrieved.
MaxEdges == 2

\* Bound: the chunk ids of one edge's source_id.
MaxUnits == 2

ChunkIds == {"c1", "c2"}

\* The chunk ids of one edge's source_id, which is the join of a set.
UnitLists == {u \in UNION {[1..m -> ChunkIds] : m \in 1..MaxUnits} : Injective(u)}

\* text_units: per edge, the chunk ids of its source_id.
TextUnitLists == UNION {[1..n -> UnitLists] : n \in 1..MaxEdges}

\* tasks: one fetch_chunk_data(c_id, index) per edge and chunk id, in the
\* order of the two loops; index counts from 0.
RECURSIVE FetchTasks(_, _)
FetchTasks(text_units, index) ==
    IF index > Len(text_units) THEN <<>>
    ELSE [j \in 1..Len(text_units[index]) |->
             [c_id |-> text_units[index][j], index |-> index - 1]]
         \o FetchTasks(text_units, index + 1)

\* asyncio.Semaphore(CHUNK_FETCH_MAX_CONCURRENCY)
chunk_semaphore_locked(holders) == holders >= CHUNK_FETCH_MAX_CONCURRENCY

\* What a text-unit step leaves alone.
notTextunits == <<config, nodes, edges, entity_vdb, relationships_vdb, graph_db_lock, pc,
                  batch, loc, npass, pre, last, written, extractVars, summaryVars, queryVars,
                  deepsearch, paging, gleaning, profiles, conversations>>

\* fetch_chunk_data runs up to its await: "if c_id in all_text_units_lookup:
\* return", then "async with semaphore" and the call of get_by_id.  The
\* event loop starts the tasks in the order gather was given them.
StartFetch(t) ==
    /\ t <= Len(textunits.tasks)
    /\ textunits.state[t] \in {"created", "waiting"}
    /\ \A u \in 1..(t - 1) : textunits.state[u] # "created"
    /\ LET task_t == textunits.tasks[t]
       IN  IF textunits.state[t] = "created" /\ task_t.c_id \in DOMAIN textunits.lookup
           THEN textunits' = [textunits EXCEPT !.state[t] = "done"]
           ELSE IF chunk_semaphore_locked(textunits.holders)
           THEN /\ textunits.state[t] = "created"
                /\ textunits' = [textunits EXCEPT !.state[t] = "waiting"]
           ELSE textunits' =
                    [textunits EXCEPT !.state[t] = "fetching",
                                      !.holders = @ + 1,
                                      !.fetched[task_t.c_id] = @ + 1]
    /\ UNCHANGED notTextunits

\* get_by_id answers: the chunk is entered in the lookup with the task's
\* index when it has content, and the semaphore is left.
FinishFetch(t) ==
    /\ t <= Len(textunits.tasks)
    /\ textunits.state[t] = "fetching"
    /\ LET task_t == textunits.tasks[t]
       IN  textunits' =
               [textunits EXCEPT
                   !.state[t] = "done",
                   !.holders = @ - 1,
                   !.lookup = IF task_t.c_id \in textunits.stored
                              THEN [c \in DOMAIN @ \cup {task_t.c_id} |->
                                       IF c = task_t.c_id THEN task_t.index ELSE @[c]]
                              ELSE @]
    /\ UNCHANGED notTextunits

InitTextunits ==
    /\ config \in {GleanConfig}
    /\ nodes = <<>>
    /\ edges = <<>>
    /\ entity_vdb = {}
    /\ relationships_vdb = {}
    /\ graph_db_lock = "free"
    /\ pc = [w \in Workers |-> "idle"]
    /\ batch = [w \in Workers |-> <<>>]
    /\ loc = [w \in Workers |-> EmptyLoc]
    /\ npass = 0
    /\ pre = EmptyGraph
    /\ last = [status |-> "none", batch |-> <<>>]
    /\ written = <<>>
    /\ ExtractOff
    /\ SummaryOff
    /\ QueryOff
    /\ deepsearch = None
    /\ paging = None
    /\ gleaning = None
    /\ profiles = None
    /\ conversations = None
    /\ \E text_units \in TextUnitLists, stored \in SUBSET ChunkIds :
        LET tasks == FetchTasks(text_units, 1)
        IN  textunits = [text_units |-> text_units, tasks |-> tasks, stored |-> stored,
                         state |-> [t \in 1..Len(tasks) |-> "created"],
                         holders |-> 0,
                         fetched |-> [c \in ChunkIds |-> 0],
                         lookup |-> [c \in {} |-> 0]]

NextTextunits ==
    \/ \E t \in 1..(MaxEdges * MaxUnits) : StartFetch(t)
    \/ \E t \in 1..(MaxEdges * MaxUnits) : FinishFetch(t)

SpecTextunits == InitTextunits /\ [][NextTextunits]_vars


\* ------------------------------------------------------------------ claims

\* What a claim compares of a graph: description, keywords, source_id and
\* weight of every node and edge.
Compared == {"description", "keywords", "source_id", "weight"}

Project(attrs) == [f \in (DOMAIN attrs) \cap Compared |-> attrs[f]]

View(g) == [nodes |-> [id \in DOMAIN g.nodes |-> Project(g.nodes[id])],
            edges |-> [k \in DOMAIN g.edges |-> Project(g.edges[k])]]

\* Worker w's pass has done its work, and the pass completed just before
\* it merged the same batch.
SecondOfTwo(w) ==
    /\ pc[w] = "release"
    /\ last.status = "ok"
    /\ last.batch = batch[w]

\* C1: merging the same extraction batch a second time leaves the graph as
\* the first merge left it: same nodes, same edges, and the same
\* description, keywords, source_id set and weight on each.
C1_MergeTwiceSameGraph ==
    \A w \in Workers : SecondOfTwo(w) => View(Graph) = View(pre)

\* C2: when extract_entities has re-raised a chunk task's exception, every
\* task it found pending has been cancelled, no task is still to run or
\* running, no chunk results are returned, and nothing has been written to
\* the graph or the vector stores; and with a failed task it never returns
\* results.
C2_FailureCancelsAndPropagates ==
    /\ main = "raised" =>
          /\ \E t \in Tasks : task[t] = "failed"
          /\ \A t \in Tasks : Finished(t)
          /\ \A t \in pending : task[t] = "cancelled"
          /\ results = None
          /\ Graph = EmptyGraph
          /\ entity_vdb = {}
          /\ relationships_vdb = {}
    /\ (\E t \in Tasks : task[t] = "failed") => main # "returned" /\ results = None

\* A failure found while other tasks were pending and one was done: the
\* pending ones are cancelled and the exception is raised.
C2_Witness ==
    /\ main = "raised"
    /\ pending # {}
    /\ \E t \in Tasks : task[t] = "done"
    /\ \E t \in Tasks : task[t] = "cancelled"

\* C3: at most one merge_nodes_and_edges call is inside the locked body
\* (between taking the lock and leaving), so no two calls' graph or
\* vector-store writes overlap.
C3_MergePassesExclusive ==
    \A w1, w2 \in Workers : InPass(w1) /\ InPass(w2) => w1 = w2

\* One call has written and is still in its body while the other waits
\* for the lock.
C3_Witness ==
    /\ InPass("w1")
    /\ pc["w2"] = "lock"
    /\ Graph # pre
    /\ relationships_vdb # {}

\* C4: in every state, also after a pass was interrupted by a storage
\* error, every id in the entity vector store is a node of the graph and
\* every (src, tgt) in the relationship vector store is an edge of it.
C4_VdbNamesGraphObjects ==
    /\ entity_vdb \subseteq DOMAIN nodes
    /\ \A e \in relationships_vdb : EdgeKey(e[1], e[2]) \in DOMAIN edges

\* A pass that merged the rejected c-c relation was interrupted by a
\* storage error after both vector stores were written.
C4_Witness ==
    /\ last.status = "storage_error"
    /\ "c2" \in Range(last.batch)
    /\ entity_vdb # {}
    /\ relationships_vdb # {}

RECURSIVE EdgeStage(_, _, _)
EdgeStage(g, all_edges, llm) ==
    IF all_edges = <<>> THEN g
    ELSE EdgeStage(_merge_edges_then_upsert(g, all_edges[1].k[1], all_edges[1].k[2],
                                            all_edges[1].v, force_llm_summary_on_merge,
                                            llm).g,
                   Tail(all_edges), llm)

Reverse(s) == [i \in 1..Len(s) |-> s[Len(s) + 1 - i]]

\* A chunk result with every relation record turned round.
Flip(chunk_result) ==
    LET TurnRecord(rec) == [rec EXCEPT !.src_id = rec.tgt_id, !.tgt_id = rec.src_id]
        TurnGroup(e) == [k |-> <<e.k[2], e.k[1]>>,
                         v |-> [j \in 1..Len(e.v) |-> TurnRecord(e.v[j])]]
        maybe_edges == chunk_result.maybe_edges
    IN  [chunk_result EXCEPT !.maybe_edges =
            [i \in 1..Len(maybe_edges) |-> TurnGroup(maybe_edges[i])]]

\* The batch of worker w as it could also have arrived: chunks in the
\* opposite order, relation records turned round, or both.
Arrivals(w) ==
    LET r == ChunkResults(batch[w], config)
        f == [i \in 1..Len(r) |-> Flip(r[i])]
    IN  {Reverse(r), f, Reverse(f)}

\* C6: the collected relation groups have pairwise different endpoint
\* pairs, so each pair is merged once; and the edges the edge stage leaves
\* (weight, description, keywords, source_id) are the same whatever the
\* orientation of the records and the order of the chunks.
C6_GroupedBySortedPair ==
    \A w \in Workers :
        pc[w] = "edges" /\ loc[w].i = 1 =>
            LET all_edges == All(w).all_edges
            IN  /\ \A i, j \in 1..Len(all_edges) :
                       Range(all_edges[i].k) = Range(all_edges[j].k) => i = j
                /\ \A llm \in LLMSummaries, other \in Arrivals(w) :
                       View(EdgeStage(Graph, Collect(other).all_edges, llm)).edges
                       = View(EdgeStage(Graph, all_edges, llm)).edges

\* The relation a-b of chunk c1 and the relation b-a of chunk c2 have been
\* merged into the one edge a-b, of weight 1 + 2.
C6_Witness ==
    \E w \in Workers :
        /\ batch[w] = <<"c2", "c1">>
        /\ pc[w] = "release"
        /\ {"a", "b"} \in DOMAIN edges
        /\ edges[{"a", "b"}].weight = 3
        /\ edges[{"a", "b"}].source_id = {"c1", "c2"}

\* C7: every node of the graph has a non-empty description and a source_id
\* or a file_path.
C7_NodesDescribed ==
    \A id \in DOMAIN nodes :
        /\ "description" \in DOMAIN nodes[id]
        /\ ~IsBlank(nodes[id].description)
        /\ nodes[id].source_id # {} \/ nodes[id].file_path # {}

\* C8: the weight stored on an edge is the accumulated sum of the weights
\* of the records merged into it.
C8_WeightIsAccumulatedSum ==
    \A k \in DOMAIN edges : k \in DOMAIN written /\ edges[k].weight = written[k]

\* C9: during and after a pass, every node and edge that was there when
\* the pass began is still there, with a source_id set that includes the
\* one it had.
C9_SourceIdsOnlyGrow ==
    \A w \in Workers :
        InPass(w) =>
            /\ \A id \in DOMAIN pre.nodes :
                   id \in DOMAIN nodes /\ pre.nodes[id].source_id \subseteq nodes[id].source_id
            /\ \A k \in DOMAIN pre.edges :
                   k \in DOMAIN edges /\ pre.edges[k].source_id \subseteq edges[k].source_id

\* C10: merging the same chunks a second time leaves the set of nodes and
\* the number of description fragments of every node as they were.
C10_RemergeKeepsFragments ==
    \A w \in Workers :
        SecondOfTwo(w) =>
            /\ DOMAIN nodes = DOMAIN pre.nodes
            /\ \A id \in DOMAIN pre.nodes :
                   NumFragment(nodes[id].description)
                   = NumFragment(pre.nodes[id].description)

\* C11: for every entity, after N merge passes the stored description has
\* at most N times the chunks merged per pass fragments: at most as many
\* fragments as chunks were merged.
C11_FragmentsBoundedByChunks ==
    \A id \in DOMAIN nodes :
        "description" \in DOMAIN nodes[id] =>
            NumFragment(nodes[id].description) <= nchunks

C13_EmptyKeywordsSwitchMode ==
    kq.got_keywords =>
        LET hl == kq.hl_keywords
            ll == kq.ll_keywords
            Executed(mode, retrievals) ==
                /\ query_param.mode = mode
                /\ kq.pc \in {"llm", "returned"} => kq.ran = retrievals
        IN  /\ hl = <<>> /\ ll = <<>> =>
                  kq.pc = "returned" /\ kq.ret = "fail_response" /\ kq.ran = {}
            /\ ll = <<>> /\ hl # <<>> /\ kq.mode \in {"local", "hybrid"} =>
                  Executed("global", {"_get_edge_data"})
            /\ hl = <<>> /\ ll # <<>> /\ kq.mode \in {"global", "hybrid"} =>
                  Executed("local", {"_get_node_data"})

\* A hybrid query whose low-level keywords came back empty has run the
\* global retrieval alone.
C13_Witness ==
    /\ kq.mode = "hybrid"
    /\ kq.hl_keywords = <<"k">> /\ kq.ll_keywords = <<>>
    /\ kq.answer # None
    /\ kq.pc = "returned"
    /\ kq.ran = {"_get_edge_data"}

\* C14: when the LLM's keyword-extraction answer holds no parseable JSON
\* object, keyword extraction yields empty lists without raising, and
\* kg_query returns fail_response.
C14_NoJsonGivesFailResponse ==
    kq.answer # None /\ kq.answer.json # "object" =>
        kq.pc = "returned" /\ kq.ret = "fail_response"

\* C15: whenever retrieval yields no context, kg_query returns fail_response,
\* whatever the query flags; it returns no empty or null value and does not
\* raise.
C15_NoContextGivesFailResponse ==
    kq.ran # {} /\ kq.context = NoneStr =>
        kq.pc = "returned" /\ kq.ret = "fail_response"

\* C16: when enable_llm_cache is not set, no operation of a query (answer,
\* keyword extraction, multi-hop path lookup) writes to the response cache.
C16_CacheWritesGated ==
    ~config.enable_llm_cache => hashing_kv = {}

\* C18 as stated: deep search with determined depth 1 generates no
\* follow-up questions, and with determined depth 3 answers at most
\* 2 + 2*2 + 2*2*2 = 14 questions, whatever lists the LLM returns.
C18_AsStated ==
    /\ deepsearch.MAX_DEPTH = 1 =>
          deepsearch.followups = 0 /\ \A i \in 1..Len(deepsearch.queue) :
                                         deepsearch.queue[i] <= 1
    /\ deepsearch.MAX_DEPTH = 3 => deepsearch.answered <= 14

\* C18, amended: deep search with determined depth 1 generates no follow-up
\* questions and answers the root's sub-questions only (at most 2), and
\* with determined depth 3 it answers at most 3 + 3*2 + 3*2*2 = 21
\* questions, whatever lists the LLM returns.
C18_DepthBoundsAnswers ==
    /\ deepsearch.MAX_DEPTH = 1 =>
          /\ deepsearch.followups = 0
          /\ \A i \in 1..Len(deepsearch.queue) : deepsearch.queue[i] <= 1
          /\ deepsearch.answered <= 2
    /\ deepsearch.MAX_DEPTH = 3 => deepsearch.answered <= 21

\* A search of depth 3 has ended with 21 questions answered.
C18_Witness ==
    /\ deepsearch.pc = "done"
    /\ deepsearch.MAX_DEPTH = 3
    /\ deepsearch.answered = 21

\* The last expansion kept the highest-scored candidates.
HighestScored(x) ==
    x.scores # <<>> =>
        \A i \in Range(x.selected), j \in (1..x.n) \ Range(x.selected) :
            x.scores[i] >= x.scores[j]

\* C19 as stated: the root enqueues min(depth, candidates) children and a
\* non-root node below the maximum depth min(depth - 1, candidates), depth
\* being the determined search depth; the children are the highest-scored
\* candidates.
C19_AsStated ==
    LET x == deepsearch.expansion
        depth == deepsearch.MAX_DEPTH
    IN  /\ Len(x.selected) = IF x.depth = 0 THEN Min(depth, x.n) ELSE Min(depth - 1, x.n)
        /\ HighestScored(x)

\* C19, amended: the root enqueues min(max(2, min(4, depth)), candidates)
\* children and a non-root node below the maximum depth
\* min(max(1, min(3, depth - 1)), candidates); the children are the
\* highest-scored candidates.
C19_ChildrenEnqueued ==
    LET x == deepsearch.expansion
        depth == deepsearch.MAX_DEPTH
    IN  /\ Len(x.selected) = IF x.depth = 0 THEN Min(Max(2, Min(4, depth)), x.n)
                             ELSE Min(Max(1, Min(3, depth - 1)), x.n)
        /\ HighestScored(x)

\* At depth 1 the root got three candidates and enqueued the two scored
\* highest, which are not the first two.
C19_Witness ==
    /\ deepsearch.MAX_DEPTH = 1
    /\ deepsearch.expansion.depth = 0
    /\ deepsearch.expansion.n = 3
    /\ deepsearch.expansion.scores = <<0, 1, 1>>
    /\ deepsearch.expansion.selected = <<2, 3>>
    /\ deepsearch.queue = <<1, 1>>

\* C17: for a fixed query and top_k = k, the result for page 2 is the second
\* window of size k of the sorted candidate list, the k items that follow
\* the k items returned for page 1 in the same ordering; in naive retrieval
\* the page window is taken first and the token budget is applied to it.
C17_SecondPageFollowsFirst ==
    LET k == paging.top_k
        store == paging.store
        budget == paging.max_token_size
        sorted == SortedByRank(VdbQuery(store, 2 * k), store)
        chunks == VdbQuery(store, 2 * k)
        PageOf(list, page) ==
            truncate_list_by_token_size(Window(list, k * (page - 1), k), store, budget)
    IN  /\ paging.local[1].asked /\ paging.local[2].asked =>
              /\ paging.local[1].items = PageOf(sorted, 1)
              /\ paging.local[2].items = PageOf(sorted, 2)
        /\ paging.naive[1].asked /\ paging.naive[2].asked =>
              /\ paging.naive[1].items = PageOf(chunks, 1)
              /\ paging.naive[2].items = PageOf(chunks, 2)

\* C20: a gleaning round adds to a chunk's result only entities whose name
\* and relations whose edge key {src, tgt} were not already extracted for
\* the chunk: an entity or an undirected edge already present is never
\* added again, whichever direction the LLM restates the edge in.
C20_GleaningAddsOnlyNew ==
    LET old == gleaning.before
        new == gleaning.maybe
        OldEdges == {EdgeKey(old.maybe_edges[i].k[1], old.maybe_edges[i].k[2]) :
                        i \in 1..Len(old.maybe_edges)}
    IN  /\ \A i \in 1..Len(old.maybe_nodes) : new.maybe_nodes[i] = old.maybe_nodes[i]
        /\ \A i \in 1..Len(old.maybe_edges) : new.maybe_edges[i] = old.maybe_edges[i]
        /\ \A i \in (Len(old.maybe_nodes) + 1)..Len(new.maybe_nodes) :
              ~DictHas(old.maybe_nodes, new.maybe_nodes[i].k)
        /\ \A i \in (Len(old.maybe_edges) + 1)..Len(new.maybe_edges) :
              EdgeKey(new.maybe_edges[i].k[1], new.maybe_edges[i].k[2]) \notin OldEdges

\* C21: at no time are more than llm_model_max_async chunk tasks inside
\* _process_single_content, in every interleaving and also while tasks fail
\* or are cancelled.
C21_ExtractionBoundedBySemaphore ==
    Cardinality({t \in Tasks : task[t] = "running"}) <= llm_model_max_async

\* The semaphore is full, after a task has failed, while a task waits.
C21_Witness ==
    /\ \E t \in Tasks : task[t] = "failed"
    /\ Cardinality({t \in Tasks : task[t] = "running"}) = llm_model_max_async
    /\ sem = llm_model_max_async

\* The profile of a file, without its "_history".
WithoutHistory(file) ==
    LET p == load_user_profile(file)
    IN  [data |-> p.data, has_version |-> p.has_version, _version |-> p._version]

\* C24: each update_user_profile call increments the profile's _version by
\* exactly one and appends to _history one snapshot tagged with the
\* previous version number (0 for the first update of an unversioned
\* profile); after n updates without a revert _version = n and _history
\* holds the versions 0..n-1 in order.
C24_UpdateVersionsInOrder ==
    LET old == load_user_profile(profiles.before)
        new == load_user_profile(profiles.file)
    IN  /\ profiles.call.name = "update" =>
              /\ new.has_version
              /\ new._version = GetVersion(old) + 1
              /\ new.has_history
              /\ Len(new._history) = Len(old._history) + 1
              /\ SubSeq(new._history, 1, Len(old._history)) = old._history
              /\ new._history[Len(new._history)].version = GetVersion(old)
        /\ profiles.call.name = "update" /\ profiles.nreverts = 0 =>
              /\ new._version = profiles.ncalls
              /\ Len(new._history) = profiles.ncalls
              /\ \A i \in 1..Len(new._history) : new._history[i].version = i - 1

\* As many updates in a row as the run allows, begun on a user without a file.
C24_Witness ==
    /\ profiles.call.name = "update"
    /\ profiles.nreverts = 0
    /\ profiles.ncalls = MaxProfileCalls
    /\ ~profiles.start.exists
    /\ load_user_profile(profiles.file)._version = MaxProfileCalls

\* C28: the snapshot that update_user_profile records in _history for the
\* previous version equals the profile exactly as it was stored before the
\* update (without _history): values changed by the update, including keys
\* inside nested dictionaries that the update merges into, do not appear
\* in that snapshot.
C28_SnapshotIsStoredProfile ==
    LET new == load_user_profile(profiles.file)
    IN  profiles.call.name = "update" =>
            new._history[Len(new._history)].profile = WithoutHistory(profiles.before)

\* C29: after revert_user_profile(user, v) succeeds, the stored profile is
\* the snapshot recorded for version v with _version = v, and the version
\* history is retained, so every other recorded version can still be
\* reverted to; a revert to a version never recorded raises ValueError and
\* leaves the stored profile unchanged.
C29_RevertKeepsHistory ==
    LET old == load_user_profile(profiles.before)
        new == load_user_profile(profiles.file)
        v == profiles.call.version
        Recorded(p, version) == \E i \in 1..Len(p._history) : p._history[i].version = version
        i == LastOfVersion(old._history, v, Len(old._history))
    IN  profiles.call.name = "revert" =>
            IF Recorded(old, v)
            THEN /\ ~profiles.call.raised
                 /\ new.data = old._history[i].profile.data
                 /\ new.has_version
                 /\ new._version = v
                 /\ \A w \in 0..MaxProfileCalls : Recorded(old, w) => Recorded(new, w)
            ELSE /\ profiles.call.raised
                 /\ profiles.file = profiles.before

\* C22: a query issued with a user_id and a conversation_id appends exactly
\* one pair of messages, {user: query} followed by {assistant: full
\* response}, to the conversation's stored history; for a streamed response
\* the pair is appended only after the stream has ended, and the assistant
\* content is the concatenation of all streamed chunks.
C22_QueryAppendsOneExchange ==
    LET request == conversations.request
        history == get_conversation_history(conversations.stored)
    IN  /\ request.state = "streaming" => history = request.before
        /\ request.state = "done" =>
              history = request.before \o Exchange(QueryText, request.streamed)

\* C23: after any sequence of append_conversation_history calls, the stored
\* history of a conversation holds at most max_messages messages, and they
\* are the most recently appended messages in their original order;
\* get_conversation_history returns exactly that list.
C23_HistoryKeepsLastMessages ==
    LET call == conversations.call
        all == call.before \o call.messages
        kept == Min(call.max_messages, Len(all))
        history == get_conversation_history(conversations.stored)
    IN  conversations.ncalls > 0 /\ conversations.request.state # "streaming" =>
            /\ Len(history) <= call.max_messages
            /\ history = SubSeq(all, Len(all) - kept + 1, Len(all))
            /\ history = SubSeq(conversations.appended,
                                Len(conversations.appended) - Len(history) + 1,
                                Len(conversations.appended))

\* The names of the entities that the pass of worker w merges.
MergedEntityNames(w) ==
    {standardize_entity_name(All(w).all_nodes[j].k) : j \in 1..Len(All(w).all_nodes)}

\* C25: post-merge fan-out calls multi_hop_paths once for each entity merged
\* in the current pass and for no other node (not for derived association
\* or multi-hop path nodes); when enable_multi_hop is false it is called
\* for no node and the merge pass still completes normally.
C25_FanOutOverMergedEntities ==
    /\ \A w \in Workers :
          pc[w] = "fanout" =>
              LET entities_data == loc[w].entities_data
              IN  /\ config.enable_multi_hop
                  /\ {entities_data[j].entity_name : j \in 1..Len(entities_data)}
                        = MergedEntityNames(w)
                  /\ \A j, k \in 1..Len(entities_data) :
                        entities_data[j].entity_name = entities_data[k].entity_name => j = k
    /\ ~config.enable_multi_hop =>
          /\ \A w \in Workers : pc[w] # "unbound"
          /\ last.status # "name_error"

\* C30: every node that a merge pass creates or updates in the graph
\* (endpoint nodes created while merging an edge included) is upserted into
\* the entity vector store in the same pass: after a completed pass every
\* graph node has an ent- entry.
C30_GraphNodesIndexed ==
    (/\ npass = 1
     /\ last.status = "ok"
     /\ \A w \in Workers : pc[w] = "idle")
    => \A name \in DOMAIN nodes : name \in entity_vdb

\* The index of the first edge whose source_id names the chunk.
FirstEdgeOf(c_id) ==
    CHOOSE i \in 1..Len(textunits.text_units) :
        /\ c_id \in Range(textunits.text_units[i])
        /\ \A j \in 1..(i - 1) : c_id \notin Range(textunits.text_units[j])

\* C27: in global retrieval's text-unit assembly each distinct chunk id
\* referenced by the retrieved edges is fetched from the KV store at most
\* once, and its position in the result is the index of the first edge that
\* references it, in every interleaving of the concurrent fetch tasks.
C27_ChunkFetchedOnceInFirstOrder ==
    /\ \A c_id \in ChunkIds : textunits.fetched[c_id] <= 1
    /\ \A c_id \in DOMAIN textunits.lookup :
          textunits.lookup[c_id] = FirstEdgeOf(c_id) - 1

\* A turn of the loop takes the head of the queue, answers it when it is
\* not the root, and only appends children, one level below it.
TurnAnswersThenExpands ==
    deepsearch.pc = "loop" /\ deepsearch'.pc = "loop" =>
        LET depth == Head(deepsearch.queue)
            rest == Len(deepsearch.queue) - 1
        IN  /\ deepsearch'.answered = deepsearch.answered + (IF depth > 0 THEN 1 ELSE 0)
            /\ Len(deepsearch'.queue) >= rest
            /\ SubSeq(deepsearch'.queue, 1, rest) = Tail(deepsearch.queue)
            /\ \A i \in (rest + 1)..Len(deepsearch'.queue) :
                  deepsearch'.queue[i] = depth + 1

\* C26: deepsearch_query always terminates: the BFS queue becomes empty
\* after finitely many steps, no node is created at a depth greater than
\* the determined maximum depth, and every non-root node is answered
\* exactly once, before any of its children is generated.
C26_DeepSearchTerminates ==
    /\ [](deepsearch.pc # "depth" =>
            \A i \in 1..Len(deepsearch.queue) : deepsearch.queue[i] <= deepsearch.MAX_DEPTH)
    /\ [][TurnAnswersThenExpands]_vars
    /\ <>[](deepsearch.pc = "done" /\ deepsearch.queue = <<>>)

\* A search of the greatest depth has ended, with follow-up questions
\* answered.
C26_Witness ==
    /\ deepsearch.pc = "done"
    /\ deepsearch.queue = <<>>
    /\ deepsearch.MAX_DEPTH = MaxAnswerDepth
    /\ deepsearch.followups >= 2
    /\ deepsearch.answered >= 4

====
